---------------------------- MODULE Spec2Model ----------------------------
(***************************************************************************)
(* Recording Session Controller of STT-for-Windows.                        *)
(*                                                                         *)
(*   internal/record  Recorder (Start / Stop / Cancel / TogglePause),      *)
(*                    the capture worker recordLoop and finish             *)
(*   internal/app     RunRecordMode: the command handler behind actionMu   *)
(*                    and the transcode / upload / paste / cache pipeline  *)
(*   internal/hotkey  the two interception strategies: the RegisterHotKey  *)
(*                    message loop (handler called synchronously) and the  *)
(*                    low-level hook (go handler(id))                      *)
(*                                                                         *)
(* Every key event gets a number 1, 2, ... in the order the OS delivers    *)
(* it; the handler invocation for event e is thread e.  A recording        *)
(* session is named by the event whose handler called Recorder.Start, and  *)
(* so are its worker goroutine, its done channel and its stop context.     *)
(***************************************************************************)
EXTENDS Integers, Sequences, FiniteSets

\* Number of key events (Spec) or of direct Recorder calls (RecSpec) explored.
MaxEvents == 3

Events == 1..MaxEvents

\* record.State (iota constants)
StateIdle == "Idle"
StateRecording == "Recording"
StatePaused == "Paused"
StateStopping == "Stopping"
StateCanceled == "Canceled"

\* record.Result: WavPath is 0 for "" and the session number for the
\* session's RecordTemp_<uuid>.wav; Err is the presence of an error.
Result(path, canceled, err) == [WavPath |-> path, Canceled |-> canceled, Err |-> err]

\* Result{} : the zero value
NoResult == Result(0, FALSE, FALSE)

\* config.Config, the fields RunRecordMode's pipeline reads.  CacheDir is
\* TRUE for a non-empty directory (InitCacheDir has cleared an unusable one).
Configs == [KeepCache : BOOLEAN, CacheDir : BOOLEAN,
            RequestFailedNotification : BOOLEAN]

\* the default configuration: no cache directory, KeepCache and
\* RequestFailedNotification false
DefaultConfig ==
  [KeepCache |-> FALSE, CacheDir |-> FALSE, RequestFailedNotification |-> FALSE]

\* a call of the low-level hook callback: nCode, wParam (msg), the vkCode
\* and flags of the KBDLLHOOKSTRUCT, the modifier keys GetAsyncKeyState
\* reports down, and the results: the return value and the command handed
\* to `go handler` (0 = none)
HookCall(nCode, msg, vk, flags, down, ret, id) ==
  [nCode |-> nCode, msg |-> msg, vk |-> vk, flags |-> flags, down |-> down,
   ret |-> ret, id |-> id]

\* no call of the callback yet
NoEvent == HookCall(0, 0, 0, 0, {}, "none", 0)

\* one call of a collaborator by the handler: what was called, with what,
\* and what it returned
Invocation(op, arg, ret) == [op |-> op, arg |-> arg, ret |-> ret]

VARIABLES
  state,      \* Recorder.state
  done,       \* Recorder.done: the session whose channel it holds, 0 = nil
  stopCtx,    \* Recorder.stopCtx / stopCancel: the session they belong to
  cancelled,  \* the sessions whose stop context has been cancelled
  chan,       \* chan[s]: contents of the one-slot channel made by session s
  wpc,        \* wpc[w]: position of worker w in recordLoop
  wres,       \* wres[w]: the Result worker w passes to finish
  paInit,     \* workers with a deferred portaudio.Terminate pending
  streamOpen, \* workers whose device stream is open
  fileOpen,   \* workers whose wav file handle is open
  files,      \* temporary files on disk: <<"wav", s>>, <<"out", s>>
  hook,       \* cfg.HotKeyHook: TRUE = low-level hook, FALSE = RegisterHotKey
  loopAlive,  \* the interception thread is still in its GetMessageW loop
  msgq,       \* thread message queue of the RegisterHotKey thread (events)
  nextEv,     \* number of the next key event / call
  hcmd,       \* hcmd[e]: command id of event e (1 start/stop, 2 pause, 3 cancel)
  ncalls,     \* ncalls[e]: how many times event e's command entered `switch id`
  hpc,        \* hpc[e]: position of the handler invocation for event e
  hsess,      \* hsess[e]: the locals cancel, done := r.stopCancel, r.done
  hres,       \* hres[e]: the Result returned to the caller
  herr,       \* herr[e]: the error a Recorder method returned to e, "" = nil
  actionMu,   \* actionMu: 0 = unlocked, else the event whose handler holds it
  hcalls,     \* hcalls[e]: the collaborator calls handler e has made, in order
  cfg,        \* the configurations cfg can be, given what has been read of it
  swallowed,  \* the hook's swallowed map: the key codes marked
  hookEv,     \* the last call of the hook callback: its arguments and result
  unpaired,   \* key codes with a consumed key-down and no non-injected
              \* key-up since (history of the callback's results)
  specs,      \* the hook's parsed hotkey specs, in the order of `specs`
  rret,       \* what hotkey.Register returned: "none" = not called yet,
              \* "pending" = waiting in its select
  ipc,        \* position of the installer goroutine Register spawns
  idef,       \* the hotkey definition the installer's loop is at (d, s)
  iod,        \* the definition the roll-back loop is at (od)
  isig,       \* the value the installer is about to write to errCh
  errCh,      \* contents of the one-slot channel errCh
  signals,    \* how many values have been written to errCh (history)
  timer,      \* the channel of time.After(2 * time.Second) is ready
  registered, \* hotkey ids the OS holds for the thread (RegisterHotKey)
  hooked,     \* the WH_KEYBOARD_LL hook is installed
  pspec,      \* the string given to parseHotkey
  pres,       \* what parseHotkey returned for it
  tcfg,       \* Client.cfg: MaxRetry, RetryBaseDelay, APIEndpoint set or ""
  tpc,        \* position of the call of Client.Transcribe
  try,        \* Transcribe's local try
  delay,      \* Transcribe's local delay, in seconds
  tret,       \* the error Transcribe returned
  uploads,    \* what the calls of doUpload returned (ok), in order (history)
  jpath,      \* the path given to ExtractByPath
  jsegs,      \* the segments the path was written from, with their meaning
  jpc,        \* position of the call of ExtractByPath
  jres        \* what ExtractByPath returned: (value, found)

recVars == <<state, done, stopCtx, cancelled, chan>>
workerVars == <<wpc, wres, paInit, streamOpen, fileOpen>>
osVars == <<hook, loopAlive, msgq, nextEv, hcmd, ncalls>>
callVars == <<hpc, hsess, hres, herr>>
pipeVars == <<hcalls, cfg>>
hookVars == <<swallowed, hookEv, unpaired, specs>>
instVars == <<rret, ipc, idef, iod, isig, errCh, signals, timer, registered,
              hooked>>
parseVars == <<pspec, pres>>
transVars == <<tcfg, tpc, try, delay, tret, uploads>>
jsonVars == <<jpath, jsegs, jpc, jres>>
auxVars == <<instVars, parseVars, transVars, jsonVars>>
vars == <<recVars, workerVars, files, osVars, callVars, actionMu, pipeVars,
          hookVars, auxVars>>

Wav(s) == <<"wav", s>>
Out(s) == <<"out", s>>

-----------------------------------------------------------------------------
\* New(cfg, tempDir) and the locals of RunRecordMode before hotkey.Register
\* the parsed startKey, pauseKey, cancelKey in the order of `specs`:
\* ctrl+alt+q, ctrl+q and win+w
HotkeySpecs ==
  << [id |-> 1, mod |-> 3, vk |-> 81],
     [id |-> 2, mod |-> 2, vk |-> 81],
     [id |-> 3, mod |-> 8, vk |-> 87] >>

InitCommon ==
  /\ state = StateIdle
  /\ done = 0
  /\ stopCtx = 0
  /\ cancelled = {}
  /\ chan = [s \in Events |-> <<>>]
  /\ wpc = [w \in Events |-> "none"]
  /\ wres = [w \in Events |-> NoResult]
  /\ paInit = {}
  /\ streamOpen = {}
  /\ fileOpen = {}
  /\ files = {}
  /\ loopAlive = TRUE
  /\ msgq = <<>>
  /\ nextEv = 1
  /\ hcmd = [e \in Events |-> 0]
  /\ ncalls = [e \in Events |-> 0]
  /\ hpc = [e \in Events |-> "none"]
  /\ hsess = [e \in Events |-> 0]
  /\ hres = [e \in Events |-> NoResult]
  /\ herr = [e \in Events |-> ""]
  /\ actionMu = 0
  /\ hcalls = [e \in Events |-> <<>>]
  /\ swallowed = {}
  /\ hookEv = NoEvent
  /\ unpaired = {}
  /\ rret = "none"
  /\ ipc = "none"
  /\ idef = 1
  /\ iod = 1
  /\ isig = "nil"
  /\ errCh = <<>>
  /\ signals = 0
  /\ timer = FALSE
  /\ registered = {}
  /\ hooked = FALSE

\* what parseHotkey returns before it has been called (no result yet)
NoParse == [err |-> FALSE, mod |-> 0, vk |-> 0]

\* parseHotkey is not under observation
ParserIdle == pspec = <<>> /\ pres = NoParse

\* an error value: its dynamic type, and the fields a *RetryExhaustedError
\* carries (0 for other types)
Error(type, attempts, maxRetry) ==
  [type |-> type, Attempts |-> attempts, MaxRetry |-> maxRetry]

\* the nil error
Nil == Error("nil", 0, 0)

\* the fields of Client.cfg that Transcribe reads
ClientConfig(maxRetry, base, endpoint) ==
  [MaxRetry |-> maxRetry, RetryBaseDelay |-> base, APIEndpoint |-> endpoint]

\* Transcribe is not under observation
TranscribeIdle ==
  /\ tcfg = ClientConfig(3, 0, TRUE)
  /\ tpc = "none"
  /\ try = 0
  /\ delay = 0
  /\ tret = Nil
  /\ uploads = <<>>

\* what ExtractByPath returns
Found(s) == [found |-> TRUE, value |-> s]
NotFound == [found |-> FALSE, value |-> <<>>]

ExtractIdle ==
  /\ jpath = <<>>
  /\ jsegs = <<>>
  /\ jpc = "none"
  /\ jres = NotFound

\* the functions studied on their own are not under observation
AuxIdle == ParserIdle /\ TranscribeIdle /\ ExtractIdle

\* RunRecordMode(cfg) with either strategy.  cfg is fixed before the call
\* and never changes; instead of one initial state per configuration, the
\* variable cfg holds every configuration that agrees with the flags the
\* handler has read so far, so each behaviour is the behaviour of the
\* configurations left in cfg.
Init == InitCommon /\ specs = HotkeySpecs /\ hook \in BOOLEAN /\ cfg = Configs /\ AuxIdle

Goto(e, pc) == hpc' = [hpc EXCEPT ![e] = pc]
WGoto(w, pc) == wpc' = [wpc EXCEPT ![w] = pc]


-----------------------------------------------------------------------------
(***************************************************************************)
(* Recorder methods.  Each body between r.mu.Lock() and r.mu.Unlock() is   *)
(* one step; okPc / errPc are where the caller continues.                  *)
(***************************************************************************)

\* faulty variant: Start without its state check
StartUnchecked == TRUE

\* Start: the guard `r.state != StateIdle` negated
StartAllowed == state = StateIdle

\* faulty variant: Stop, Cancel and TogglePause without their state check
RunningUnchecked == TRUE

\* Stop, Cancel, TogglePause: `r.state != StateRecording && r.state != StatePaused` negated
Running == state \in {StateRecording, StatePaused}

\* fmt.Errorf("recorder not idle"), fmt.Errorf("recorder not running")
ErrNotIdle == "recorder not idle"
ErrNotRunning == "recorder not running"

\* r.mu.Unlock(); return err
Reject(e, errPc, err) ==
  /\ Goto(e, errPc)
  /\ herr' = [herr EXCEPT ![e] = err]
  /\ UNCHANGED <<recVars, hsess>>

\* Recorder.Start up to r.mu.Unlock()
Start(e, okPc, errPc) ==
  IF ~StartAllowed
    THEN Reject(e, errPc, ErrNotIdle)
    ELSE /\ state' = StateRecording
         /\ done' = e
         /\ stopCtx' = e
         /\ Goto(e, okPc)
         /\ UNCHANGED <<cancelled, chan, hsess, herr>>

\* Recorder.Stop (to = StateStopping) and Recorder.Cancel (to = StateCanceled)
\* up to r.mu.Unlock(): the state changes and stopCancel, done are copied
Halt(e, to, okPc, errPc) ==
  IF ~Running
    THEN Reject(e, errPc, ErrNotRunning)
    ELSE /\ state' = to
         /\ hsess' = [hsess EXCEPT ![e] = done]
         /\ Goto(e, okPc)
         /\ UNCHANGED <<done, stopCtx, cancelled, chan, herr>>

\* faulty variant: TogglePause that pauses but never resumes
TogglePauseOneWay(e, okPc, errPc) ==
  IF ~Running
    THEN Reject(e, errPc, ErrNotRunning)
    ELSE /\ state' = StatePaused
         /\ Goto(e, okPc)
         /\ UNCHANGED <<done, stopCtx, cancelled, chan, hsess, herr>>

\* Recorder.TogglePause
TogglePause(e, okPc, errPc) ==
  IF ~Running
    THEN Reject(e, errPc, ErrNotRunning)
    ELSE /\ state' = IF state = StatePaused THEN StateRecording ELSE StatePaused
         /\ Goto(e, okPc)
         /\ UNCHANGED <<done, stopCtx, cancelled, chan, hsess, herr>>

-----------------------------------------------------------------------------
(***************************************************************************)
(* Steps of a caller inside a Recorder method; shared by the controller's  *)
(* handler (Spec) and by direct callers of the Recorder (RecSpec).         *)
(***************************************************************************)

\* caller e is in Recorder.Start
HStart(e) ==
  /\ hpc[e] = "Start"
  /\ Start(e, "go", "return")
  /\ UNCHANGED <<workerVars, files, osVars, hres, actionMu>>
  /\ UNCHANGED <<pipeVars, hookVars, auxVars>>

\* go r.recordLoop()
HGo(e) ==
  /\ hpc[e] = "go"
  /\ WGoto(e, "Initialize")
  /\ Goto(e, "return")
  /\ UNCHANGED <<recVars, wres, paInit, streamOpen, fileOpen, files, osVars,
                 hsess, hres, herr, actionMu>>
  /\ UNCHANGED <<pipeVars, hookVars, auxVars>>

HStop(e) ==
  /\ hpc[e] = "Stop"
  /\ Halt(e, StateStopping, "cancel", "return")
  /\ UNCHANGED <<workerVars, files, osVars, hres, actionMu>>
  /\ UNCHANGED <<pipeVars, hookVars, auxVars>>

HCancel(e) ==
  /\ hpc[e] = "Cancel"
  /\ Halt(e, StateCanceled, "cancel", "return")
  /\ UNCHANGED <<workerVars, files, osVars, hres, actionMu>>
  /\ UNCHANGED <<pipeVars, hookVars, auxVars>>

\* if cancel != nil { cancel() }
HCancelCtx(e) ==
  /\ hpc[e] = "cancel"
  /\ cancelled' = cancelled \cup {hsess[e]}
  /\ Goto(e, "recv")
  /\ UNCHANGED <<state, done, stopCtx, chan, workerVars, files, osVars,
                 hsess, hres, herr, actionMu>>
  /\ UNCHANGED <<pipeVars, hookVars, auxVars>>

\* faulty variant: the handler's case 1 runs the pipeline on any Result
AfterRecvUnchecked(e, res) == IF hcmd[e] = 1 THEN "Convert" ELSE "return"

\* Where the caller goes with the Result of Stop / Cancel.  The handler's
\* case 1 returns on err != nil (Stop returns res.Err) and on res.Canceled,
\* else runs the pipeline; case 3 and a direct caller just return.
AfterRecv(e, res) ==
  IF hcmd[e] = 1 /\ ~res.Err /\ ~res.Canceled THEN "Convert" ELSE "return"

\* res := <-done
HRecv(e) ==
  /\ hpc[e] = "recv"
  /\ chan[hsess[e]] # <<>>
  /\ hres' = [hres EXCEPT ![e] = Head(chan[hsess[e]])]
  /\ chan' = [chan EXCEPT ![hsess[e]] = Tail(@)]
  /\ Goto(e, AfterRecv(e, Head(chan[hsess[e]])))
  /\ UNCHANGED <<state, done, stopCtx, cancelled, workerVars, files, osVars,
                 hsess, herr, actionMu>>
  /\ UNCHANGED <<pipeVars, hookVars, auxVars>>

HTogglePause(e) ==
  /\ hpc[e] = "TogglePause"
  /\ TogglePause(e, "return", "return")
  /\ UNCHANGED <<workerVars, files, osVars, hres, actionMu>>
  /\ UNCHANGED <<pipeVars, hookVars, auxVars>>

\* the call returns and its locals are gone; in the handler the deferred
\* actionMu.Unlock() runs
HReturn(e) ==
  /\ hpc[e] = "return"
  /\ Goto(e, "finished")
  /\ actionMu' = IF actionMu = e THEN 0 ELSE actionMu
  /\ hcmd' = [hcmd EXCEPT ![e] = 0]
  /\ hsess' = [hsess EXCEPT ![e] = 0]
  /\ hres' = [hres EXCEPT ![e] = NoResult]
  /\ herr' = [herr EXCEPT ![e] = ""]
  /\ hcalls' = [hcalls EXCEPT ![e] = <<>>]
  /\ UNCHANGED <<recVars, workerVars, files, hook, loopAlive, msgq, nextEv,
                 ncalls, cfg>>
  /\ UNCHANGED <<hookVars, auxVars>>

-----------------------------------------------------------------------------
(***************************************************************************)
(* The capture worker: recordLoop and finish.  Device, encoder and file    *)
(* calls fail nondeterministically.  r.wavPath (written at the top of      *)
(* recordLoop, never read) is left out.                                    *)
(***************************************************************************)

\* faulty variant: the loop never looks at the Canceled state
cancelNeverSeen == FALSE

\* isCanceled()
isCanceled == state = StateCanceled

\* faulty variant: the loop never polls the pause
pauseNeverSeen == FALSE

\* isPaused()
isPaused == state = StatePaused

\* faulty variant: the loop never polls the stop context
stopNeverSeen == FALSE

\* case <-r.stopCtx.Done()
stopRequested == stopCtx \in cancelled

\* r.finish(res) is entered with res
CallFinish(w, res) ==
  /\ wres' = [wres EXCEPT ![w] = res]
  /\ WGoto(w, "finish")

\* the error Results of recordLoop: Result{WavPath: wavPath, Err: ...}
ErrResult(w) == Result(w, FALSE, TRUE)

\* portaudio.Initialize(); on success Terminate is deferred
WInitialize(w) ==
  /\ wpc[w] = "Initialize"
  /\ \/ /\ CallFinish(w, ErrResult(w))
        /\ UNCHANGED paInit
     \/ /\ paInit' = paInit \cup {w}
        /\ WGoto(w, "OpenDefaultStream")
        /\ UNCHANGED wres
  /\ UNCHANGED <<recVars, streamOpen, fileOpen, files, osVars, callVars, actionMu>>
  /\ UNCHANGED <<pipeVars, hookVars, auxVars>>

\* portaudio.OpenDefaultStream(...)
WOpenDefaultStream(w) ==
  /\ wpc[w] = "OpenDefaultStream"
  /\ \/ /\ CallFinish(w, ErrResult(w))
        /\ UNCHANGED streamOpen
     \/ /\ streamOpen' = streamOpen \cup {w}
        /\ WGoto(w, "StreamStart")
        /\ UNCHANGED wres
  /\ UNCHANGED <<recVars, paInit, fileOpen, files, osVars, callVars, actionMu>>
  /\ UNCHANGED <<pipeVars, hookVars, auxVars>>

\* stream.Start(); on failure stream.Close()
WStreamStart(w) ==
  /\ wpc[w] = "StreamStart"
  /\ \/ /\ streamOpen' = streamOpen \ {w}
        /\ CallFinish(w, ErrResult(w))
     \/ /\ WGoto(w, "Create")
        /\ UNCHANGED <<wres, streamOpen>>
  /\ UNCHANGED <<recVars, paInit, fileOpen, files, osVars, callVars, actionMu>>
  /\ UNCHANGED <<pipeVars, hookVars, auxVars>>

\* os.Create(wavPath) and wav.NewEncoder; on failure stream.Stop(), stream.Close()
WCreate(w) ==
  /\ wpc[w] = "Create"
  /\ \/ /\ streamOpen' = streamOpen \ {w}
        /\ CallFinish(w, ErrResult(w))
        /\ UNCHANGED <<fileOpen, files>>
     \/ /\ fileOpen' = fileOpen \cup {w}
        /\ files' = files \cup {Wav(w)}
        /\ WGoto(w, "loop")
        /\ UNCHANGED <<wres, streamOpen>>
  /\ UNCHANGED <<recVars, paInit, osVars, callVars, actionMu>>
  /\ UNCHANGED <<pipeVars, hookVars, auxVars>>

\* head of the for loop: isCanceled -> break; isPaused -> sleep, continue;
\* stopCtx done -> goto done; else on to stream.Read()
WLoop(w) ==
  /\ wpc[w] = "loop"
  /\ WGoto(w, IF isCanceled THEN "done"
              ELSE IF isPaused THEN "loop"
              ELSE IF stopRequested THEN "done"
              ELSE "Read")
  /\ UNCHANGED <<recVars, wres, paInit, streamOpen, fileOpen, files, osVars,
                 callVars, actionMu>>
  /\ UNCHANGED <<pipeVars, hookVars, auxVars>>

\* stream.Read(): an error is logged and the loop continues
WRead(w) ==
  /\ wpc[w] = "Read"
  /\ \/ WGoto(w, "loop")
     \/ WGoto(w, "Write")
  /\ UNCHANGED <<recVars, wres, paInit, streamOpen, fileOpen, files, osVars,
                 callVars, actionMu>>
  /\ UNCHANGED <<pipeVars, hookVars, auxVars>>

\* enc.Write(buf); on failure enc.Close, file.Close, stream.Stop, stream.Close,
\* os.Remove(wavPath), finish; on success sleep and loop
WWrite(w) ==
  /\ wpc[w] = "Write"
  /\ \/ /\ fileOpen' = fileOpen \ {w}
        /\ streamOpen' = streamOpen \ {w}
        /\ files' = files \ {Wav(w)}
        /\ CallFinish(w, ErrResult(w))
     \/ /\ WGoto(w, "loop")
        /\ UNCHANGED <<wres, streamOpen, fileOpen, files>>
  /\ UNCHANGED <<recVars, paInit, osVars, callVars, actionMu>>
  /\ UNCHANGED <<pipeVars, hookVars, auxVars>>

\* done: stream.Stop(); stream.Close()
WDone(w) ==
  /\ wpc[w] = "done"
  /\ streamOpen' = streamOpen \ {w}
  /\ WGoto(w, "close")
  /\ UNCHANGED <<recVars, wres, paInit, fileOpen, files, osVars, callVars, actionMu>>
  /\ UNCHANGED <<pipeVars, hookVars, auxVars>>

\* after done: the canceled branch, the enc.Close() failure branch, the normal end
WClose(w) ==
  /\ wpc[w] = "close"
  /\ fileOpen' = fileOpen \ {w}
  /\ IF isCanceled
       THEN /\ files' = files \ {Wav(w)}
            /\ CallFinish(w, Result(0, TRUE, FALSE))
       ELSE \/ /\ files' = files \ {Wav(w)}
               /\ CallFinish(w, ErrResult(w))
            \/ /\ CallFinish(w, Result(w, FALSE, FALSE))
               /\ UNCHANGED files
  /\ UNCHANGED <<recVars, paInit, streamOpen, osVars, callVars, actionMu>>
  /\ UNCHANGED <<pipeVars, hookVars, auxVars>>

\* finish: r.mu.Lock(); r.state = StateIdle; r.mu.Unlock()
WFinish(w) ==
  /\ wpc[w] = "finish"
  /\ state' = StateIdle
  /\ WGoto(w, "send")
  /\ UNCHANGED <<done, stopCtx, cancelled, chan, wres, paInit, streamOpen,
                 fileOpen, files, osVars, callVars, actionMu>>
  /\ UNCHANGED <<pipeVars, hookVars, auxVars>>

\* The channels the unlocked read of r.done in finish can yield: Start writes
\* r.done under r.mu, finish reads it after its Unlock, so the read races with
\* every Start since then and returns the worker's own channel or a later one.
doneRead(w) ==
  {c \in Events : w <= c /\ c <= done /\ (c = done \/ wpc[c] # "none")}

\* after the send recordLoop returns, through the deferred Terminate if any
AfterSend(w) == IF w \in paInit THEN "Terminate" ELSE "returned"

\* finish: r.done <- res (blocks while the one slot is full)
WSend(w) ==
  /\ wpc[w] = "send"
  /\ \E c \in doneRead(w) :
       /\ Len(chan[c]) < 1
       /\ chan' = [chan EXCEPT ![c] = Append(@, wres[w])]
  /\ WGoto(w, AfterSend(w))
  /\ UNCHANGED <<state, done, stopCtx, cancelled, wres, paInit, streamOpen,
                 fileOpen, files, osVars, callVars, actionMu>>
  /\ UNCHANGED <<pipeVars, hookVars, auxVars>>

\* defer portaudio.Terminate()
WTerminate(w) ==
  /\ wpc[w] = "Terminate"
  /\ paInit' = paInit \ {w}
  /\ WGoto(w, "returned")
  /\ UNCHANGED <<recVars, wres, streamOpen, fileOpen, files, osVars, callVars,
                 actionMu>>
  /\ UNCHANGED <<pipeVars, hookVars, auxVars>>

\* one step of worker w
recordLoop(w) ==
  \/ WInitialize(w)
  \/ WOpenDefaultStream(w)
  \/ WStreamStart(w)
  \/ WCreate(w)
  \/ WLoop(w)
  \/ WRead(w)
  \/ WWrite(w)
  \/ WDone(w)
  \/ WClose(w)
  \/ WFinish(w)
  \/ WSend(w)
  \/ WTerminate(w)

-----------------------------------------------------------------------------
(***************************************************************************)
(* RunRecordMode: handler(id), run by thread e for key event e.            *)
(***************************************************************************)

\* faulty variant: handler without actionMu
MuIgnored == TRUE

\* actionMu.Lock() can return
MuFree == actionMu = 0

\* switch id: where each case begins
CaseOf(id) == IF id = 2 THEN "TogglePause" ELSE "State"

\* faulty variant: TryLock, a command that finds actionMu held is dropped
HTryLock(e) ==
  /\ hpc[e] = "Lock"
  /\ IF actionMu = 0
       THEN /\ actionMu' = e
            /\ ncalls' = [ncalls EXCEPT ![e] = @ + 1]
            /\ Goto(e, CaseOf(hcmd[e]))
       ELSE /\ Goto(e, "finished")
            /\ UNCHANGED <<actionMu, ncalls>>
  /\ UNCHANGED <<recVars, workerVars, files, hook, loopAlive, msgq, nextEv,
                 hcmd, hsess, hres, herr>>
  /\ UNCHANGED <<pipeVars, hookVars, auxVars>>

\* actionMu.Lock(); defer actionMu.Unlock(); switch id
HLock(e) ==
  /\ hpc[e] = "Lock"
  /\ MuFree
  /\ actionMu' = e
  /\ ncalls' = [ncalls EXCEPT ![e] = @ + 1]
  /\ Goto(e, CaseOf(hcmd[e]))
  /\ UNCHANGED <<recVars, workerVars, files, hook, loopAlive, msgq, nextEv,
                 hcmd, hsess, hres, herr>>
  /\ UNCHANGED <<pipeVars, hookVars, auxVars>>

\* recorder.State() == record.StateIdle, in case 1 and in case 3
HState(e) ==
  /\ hpc[e] = "State"
  /\ Goto(e, IF hcmd[e] = 1
               THEN (IF state = StateIdle THEN "Start" ELSE "Stop")
               ELSE (IF state = StateIdle THEN "return" ELSE "Cancel"))
  /\ UNCHANGED <<recVars, workerVars, files, osVars, hsess, hres, herr, actionMu>>
  /\ UNCHANGED <<pipeVars, hookVars, auxVars>>

\* the handler's call of a collaborator is appended to its record
Invoke(e, op, arg, ret) ==
  hcalls' = [hcalls EXCEPT ![e] = Append(@, Invocation(op, arg, ret))]

\* the last collaborator call handler e has made
LastCall(e) == hcalls[e][Len(hcalls[e])]

\* the handler reads a flag of cfg: the configurations in which the flag
\* has the value found (agreeing) remain
ReadCfg(agreeing) ==
  /\ agreeing # {}
  /\ cfg' = agreeing

\* files in cfg.CacheDir: audio-<timestamp>.wav and .<ext>, named here by
\* the session they come from
CachedWav(s) == <<"cache.wav", s>>
CachedOut(s) == <<"cache.out", s>>

\* faulty variant: only the transcode output is removed
RemovedOutOnly(s) == files \ {Out(s)}

\* _ = os.Remove(wavPath); _ = os.Remove(outPath)
Removed(s) == files \ {Wav(s), Out(s)}

\* ffmpeg.Convert(cfg, res.WavPath, outPath, ...); on failure both files are
\* removed and the handler returns
HConvert(e) ==
  /\ hpc[e] = "Convert"
  /\ \/ /\ Invoke(e, "Convert", "", "error")
        /\ files' = Removed(hres[e].WavPath)
        /\ Goto(e, "return")
     \/ /\ Invoke(e, "Convert", "", "ok")
        /\ files' = files \cup {Out(hres[e].WavPath)}
        /\ Goto(e, "Transcribe")
  /\ UNCHANGED <<recVars, workerVars, osVars, hsess, hres, herr, actionMu, cfg>>
  /\ UNCHANGED <<hookVars, auxVars>>

\* what asrClient.Transcribe returns: a non-empty text, an empty text, a
\* RetryExhaustedError or another error
TranscribeReturns == {"text", "", "RetryExhaustedError", "error"}

\* uploadOk := err == nil
UploadOk(ret) == ret \in {"text", ""}

\* cfg.RequestFailedNotification
RequestFailedNotification(c) == c.RequestFailedNotification

\* where the handler goes after Transcribe returned ret: PasteText for a
\* non-empty text, and for a RetryExhaustedError when
\* cfg.RequestFailedNotification (rfn) is set; handleCache otherwise
AfterTranscribe(ret, rfn) ==
  IF ret = "text" \/ (ret = "RetryExhaustedError" /\ rfn)
    THEN "PasteText" ELSE "handleCache"

\* text, raw, err := asrClient.Transcribe(ctx, outPath); on an error
\* cfg.RequestFailedNotification is read
HTranscribe(e) ==
  /\ hpc[e] = "Transcribe"
  /\ \E ret \in TranscribeReturns :
       /\ Invoke(e, "Transcribe", "", ret)
       /\ IF UploadOk(ret)
            THEN /\ Goto(e, AfterTranscribe(ret, FALSE))
                 /\ UNCHANGED cfg
            ELSE \E rfn \in BOOLEAN :
                   /\ ReadCfg({c \in cfg : RequestFailedNotification(c) = rfn})
                   /\ Goto(e, AfterTranscribe(ret, rfn))
  /\ UNCHANGED <<recVars, workerVars, files, osVars, hsess, hres, herr, actionMu>>
  /\ UNCHANGED <<hookVars, auxVars>>

\* the argument of clipboard.PasteText: the text, or the placeholder after
\* a failed request
PasteArg(ret) == IF ret = "text" THEN "text" ELSE "[request failed]"

\* faulty variant: a failed paste ends the handling
AfterPasteReturns(ret) == IF ret = "ok" THEN "handleCache" ELSE "return"

\* a paste, failed or not, is only reported; handleCache follows
AfterPaste(ret) == "handleCache"

\* clipboard.PasteText(...)
HPasteText(e) ==
  /\ hpc[e] = "PasteText"
  /\ \E ret \in {"ok", "error"} :
       /\ Invoke(e, "PasteText", PasteArg(LastCall(e).ret), ret)
       /\ Goto(e, AfterPaste(ret))
  /\ UNCHANGED <<recVars, workerVars, files, osVars, hsess, hres, herr,
                 actionMu, cfg>>
  /\ UNCHANGED <<hookVars, auxVars>>

\* the uploadOk argument of handleCache
Uploaded(e) ==
  \E i \in DOMAIN hcalls[e] :
    hcalls[e][i].op = "Transcribe" /\ UploadOk(hcalls[e][i].ret)

\* faulty variant: the cache directory is not looked at
KeepsCacheAnywhere(c) == c.KeepCache

\* cfg.KeepCache && cfg.CacheDir != ""
KeepsCache(c) == c.KeepCache /\ c.CacheDir

\* handleCache(cfg, res.WavPath, outPath, uploadOk, raw).  With keep-cache
\* each file is renamed into the cache directory, or removed when os.Rename
\* fails (wavOk, outOk); without, both files are removed.  The .json file
\* written from raw after a successful upload is left out.
handleCache(e) ==
  /\ hpc[e] = "handleCache"
  /\ \E keep, wavOk, outOk \in BOOLEAN :
       LET s == hres[e].WavPath
       IN  /\ ReadCfg({c \in cfg : KeepsCache(c) = keep})
           /\ ~keep => (~wavOk /\ ~outOk)
           /\ wavOk => Wav(s) \in files
           /\ outOk => Out(s) \in files
           /\ files' = Removed(s)
                         \cup (IF wavOk THEN {CachedWav(s)} ELSE {})
                         \cup (IF outOk THEN {CachedOut(s)} ELSE {})
  /\ Invoke(e, "handleCache", IF Uploaded(e) THEN "uploadOk" ELSE "", "")
  /\ Goto(e, "return")
  /\ UNCHANGED <<recVars, workerVars, osVars, hsess, hres, herr, actionMu>>
  /\ UNCHANGED <<hookVars, auxVars>>

\* one step of handler(id) for event e, other than taking actionMu
handler(e) ==
  \/ HState(e)
  \/ HStart(e)
  \/ HGo(e)
  \/ HStop(e)
  \/ HCancel(e)
  \/ HCancelCtx(e)
  \/ HRecv(e)
  \/ HTogglePause(e)
  \/ HConvert(e)
  \/ HTranscribe(e)
  \/ HPasteText(e)
  \/ handleCache(e)
  \/ HReturn(e)

-----------------------------------------------------------------------------
(***************************************************************************)
(* The interception layer.  Only hotkey events are modelled: WM_HOTKEY     *)
(* messages for the three registered ids (registerHotkeys) and matched,    *)
(* non-injected key-downs (startLowLevelHook).                             *)
(***************************************************************************)

CommandIds == {1, 2, 3}

\* the positions at which a handler invocation is not running
Inactive == {"none", "queued", "finished"}

\* the interception thread is inside GetMessageW, not inside handler
InGetMessage == \A e \in Events : hpc[e] \in Inactive

\* the OS posts WM_HOTKEY with wParam = id to the registering thread's queue
PostHotkey(id) ==
  /\ ~hook
  /\ loopAlive
  /\ nextEv <= MaxEvents
  /\ msgq' = Append(msgq, nextEv)
  /\ hcmd' = [hcmd EXCEPT ![nextEv] = id]
  /\ Goto(nextEv, "queued")
  /\ nextEv' = nextEv + 1
  /\ UNCHANGED <<recVars, workerVars, files, hook, loopAlive, ncalls, hsess,
                 hres, herr, actionMu>>
  /\ UNCHANGED <<pipeVars, hookVars, auxVars>>

\* registerHotkeys: GetMessageW returns the oldest message; handler(id) is
\* called on the message thread, which retrieves nothing until it returns
GetMessageW ==
  /\ ~hook
  /\ loopAlive
  /\ InGetMessage
  /\ msgq # <<>>
  /\ msgq' = Tail(msgq)
  /\ Goto(Head(msgq), "Lock")
  /\ UNCHANGED <<recVars, workerVars, files, hook, loopAlive, nextEv, hcmd,
                 ncalls, hsess, hres, herr, actionMu>>
  /\ UNCHANGED <<pipeVars, hookVars, auxVars>>

\* faulty variant: the callback calls handler(c.id) itself, as the message
\* loop of registerHotkeys does, and so waits for the handler before it
HookKeyDownWaits(id) ==
  /\ hook
  /\ loopAlive
  /\ InGetMessage
  /\ nextEv <= MaxEvents
  /\ hcmd' = [hcmd EXCEPT ![nextEv] = id]
  /\ Goto(nextEv, "Lock")
  /\ nextEv' = nextEv + 1
  /\ UNCHANGED <<recVars, workerVars, files, hook, loopAlive, msgq, ncalls,
                 hsess, hres, herr, actionMu>>
  /\ UNCHANGED <<pipeVars, hookVars, auxVars>>
\* startLowLevelHook callback on a matched key-down: go handler(c.id); return 1
HookKeyDown(id) ==
  /\ hook
  /\ loopAlive
  /\ nextEv <= MaxEvents
  /\ hcmd' = [hcmd EXCEPT ![nextEv] = id]
  /\ Goto(nextEv, "Lock")
  /\ nextEv' = nextEv + 1
  /\ UNCHANGED <<recVars, workerVars, files, hook, loopAlive, msgq, ncalls,
                 hsess, hres, herr, actionMu>>
  /\ UNCHANGED <<pipeVars, hookVars, auxVars>>

\* GetMessageW returns -1 (or 0 under the hook): the loop ends, and with it
\* the thread's registrations or the hook
GetMessageExit ==
  /\ loopAlive
  /\ hook \/ InGetMessage
  /\ loopAlive' = FALSE
  /\ UNCHANGED <<recVars, workerVars, files, hook, msgq, nextEv, hcmd, ncalls,
                 callVars, actionMu>>
  /\ UNCHANGED <<pipeVars, hookVars, auxVars>>

-----------------------------------------------------------------------------
\* The program: RunRecordMode with either interception strategy
Next ==
  \/ \E id \in CommandIds : PostHotkey(id)
  \/ GetMessageW
  \/ \E id \in CommandIds : HookKeyDown(id)
  \/ GetMessageExit
  \/ \E e \in Events : HLock(e)
  \/ \E e \in Events : handler(e)
  \/ \E w \in Events : recordLoop(w)

Spec == Init /\ [][Next]_vars

\* Scheduling: goroutines and the message thread keep running (WF); a handler
\* blocked in actionMu.Lock() gets the mutex after finitely many hand-overs
\* (sync.Mutex starvation mode), hence SF for HLock.
Fairness ==
  /\ WF_vars(GetMessageW)
  /\ \A e \in Events : SF_vars(HLock(e))
  /\ \A e \in Events : WF_vars(handler(e))
  /\ \A w \in Events : WF_vars(recordLoop(w))

FairSpec == Spec /\ Fairness

-----------------------------------------------------------------------------
(***************************************************************************)
(* The low-level keyboard hook on its own: the callback installed by       *)
(* startLowLevelHook, called by the OS for every keyboard event.  The      *)
(* handlers it starts with `go handler(c.id)` are left at actionMu.Lock(). *)
(***************************************************************************)

WM_KEYDOWN == 256
WM_KEYUP == 257
WM_SYSKEYDOWN == 260
WM_SYSKEYUP == 261
LLKHF_INJECTED == 16
VK_SHIFT == 16
VK_CONTROL == 17
VK_MENU == 18
VK_LWIN == 91
VK_RWIN == 92

\* (x & b) != 0 for a single bit b
Bit(x, b) == (x \div b) % 2 = 1

\* lookup[vk]: the candidates for key code vk, in the order of `specs`
lookup(vk) ==
  LET IsVk(s) == s.vk = vk
  IN  SelectSeq(specs, IsVk)

\* Number of handlers the hook starts in the explored runs of HookSpec.
MaxHandoffs == 2

\* the callback's arguments explored: nCode, wParam, vkCode (q, w and a key
\* that is no hotkey), flags (none, LLKHF_UP, LLKHF_UP | LLKHF_INJECTED)
\* and the modifier keys down
NCodes == {-1, 0}
Messages == {WM_KEYDOWN, WM_KEYUP, WM_SYSKEYDOWN, WM_SYSKEYUP}
KeyCodes == {65, 81, 87}
FlagValues == {0, 128, 144}
DownSets ==
  { {VK_SHIFT}, {VK_CONTROL}, {VK_CONTROL, VK_MENU}, {VK_LWIN}, {VK_RWIN} }

\* modsSatisfied(required), with the keys GetAsyncKeyState reports down
modsSatisfied(required, down) ==
  /\ Bit(required, 2) => VK_CONTROL \in down
  /\ Bit(required, 1) => VK_MENU \in down
  /\ Bit(required, 4) => VK_SHIFT \in down
  /\ Bit(required, 8) => (VK_LWIN \in down \/ VK_RWIN \in down)

\* faulty variant: the injected flag is not looked at
InjectedIgnored(flags) == FALSE

\* (flags & LLKHF_INJECTED) != 0
Injected(flags) == Bit(flags, LLKHF_INJECTED)

\* msg == WM_KEYDOWN || msg == WM_SYSKEYDOWN
IsKeyDown(msg) == msg \in {WM_KEYDOWN, WM_SYSKEYDOWN}

\* faulty variant: WM_SYSKEYUP is not taken for a key-up
IsKeyUpNoSys(msg) == msg = WM_KEYUP

\* msg == WM_KEYUP || msg == WM_SYSKEYUP
IsKeyUp(msg) == msg \in {WM_KEYUP, WM_SYSKEYUP}

\* faulty variant: the last candidate whose modifiers are down wins
LastMatch(vk, down) ==
  LET cands == lookup(vk)
      ok == {i \in DOMAIN cands : modsSatisfied(cands[i].mod, down)}
  IN  IF ok = {} THEN 0
      ELSE cands[CHOOSE i \in ok : \A j \in ok : i >= j].id

\* for _, c := range cands { if modsSatisfied(c.mod) { ... } }: the id of
\* the first candidate whose modifiers are down, 0 if there is none
FirstMatch(vk, down) ==
  LET cands == lookup(vk)
      ok == {i \in DOMAIN cands : modsSatisfied(cands[i].mod, down)}
  IN  IF ok = {} THEN 0
      ELSE cands[CHOOSE i \in ok : \A j \in ok : i <= j].id

\* the callback's return values
Consumed == "1"
Forwarded == "CallNextHookEx"

\* what one call of the callback does: its return value, the command it
\* hands to `go handler` and the swallowed map it leaves
callback(nCode, msg, vk, flags, down) ==
  LET forward == [ret |-> Forwarded, id |-> 0, swallowed |-> swallowed]
  IN  IF nCode < 0 THEN forward
      ELSE IF Injected(flags) THEN forward
      ELSE IF IsKeyDown(msg) /\ FirstMatch(vk, down) # 0
        THEN [ret |-> Consumed, id |-> FirstMatch(vk, down),
              swallowed |-> swallowed \cup {vk}]
      ELSE IF IsKeyUp(msg) /\ vk \in swallowed
        THEN [ret |-> Consumed, id |-> 0, swallowed |-> swallowed \ {vk}]
      ELSE forward

\* the key codes left with a consumed key-down and no later non-injected
\* key-up, after a call with these arguments returned ret
Unpaired(nCode, msg, vk, flags, ret) ==
  IF ret = Consumed /\ msg \in {WM_KEYDOWN, WM_SYSKEYDOWN}
    THEN unpaired \cup {vk}
  ELSE IF nCode >= 0 /\ ~Bit(flags, LLKHF_INJECTED)
          /\ msg \in {WM_KEYUP, WM_SYSKEYUP}
    THEN unpaired \ {vk}
  ELSE unpaired

\* the OS calls the callback on the hook thread; `go handler(c.id)` starts
\* handler invocation nextEv
LowLevelKeyboardProc(nCode, msg, vk, flags, down) ==
  LET r == callback(nCode, msg, vk, flags, down)
  IN  /\ hook
      /\ loopAlive
      /\ r.id # 0 => nextEv <= MaxHandoffs
      /\ swallowed' = r.swallowed
      /\ hookEv' = HookCall(nCode, msg, vk, flags, down, r.ret, r.id)
      /\ unpaired' = Unpaired(nCode, msg, vk, flags, r.ret)
      /\ IF r.id # 0
           THEN /\ hcmd' = [hcmd EXCEPT ![nextEv] = r.id]
                /\ Goto(nextEv, "Lock")
                /\ nextEv' = nextEv + 1
           ELSE UNCHANGED <<hcmd, hpc, nextEv>>
      /\ UNCHANGED <<recVars, workerVars, files, hook, loopAlive, msgq,
                     ncalls, hsess, hres, herr, actionMu, specs, pipeVars,
                     auxVars>>

\* the pipeline's configuration plays no part here: the default is taken
HookInit == InitCommon /\ specs = HotkeySpecs /\ hook = TRUE /\ cfg = {DefaultConfig} /\ AuxIdle

\* with nCode < 0 the other arguments mean nothing to the callback: one
\* choice of them per key code is explored
HookNext ==
  \E nCode \in NCodes, msg \in Messages, vk \in KeyCodes,
     flags \in FlagValues, down \in DownSets :
    /\ nCode < 0 => (msg = WM_KEYUP /\ flags = 0 /\ down = {VK_CONTROL})
    /\ LowLevelKeyboardProc(nCode, msg, vk, flags, down)

HookSpec == HookInit /\ [][HookNext]_vars

-----------------------------------------------------------------------------
(***************************************************************************)
(* The Recorder on its own: its exported methods called directly and       *)
(* concurrently (no controller, no actionMu), one call per thread.         *)
(***************************************************************************)

Methods == {"Start", "Stop", "Cancel", "TogglePause"}

Call(m) ==
  /\ nextEv <= MaxEvents
  /\ Goto(nextEv, m)
  /\ nextEv' = nextEv + 1
  /\ UNCHANGED <<recVars, workerVars, files, hook, loopAlive, msgq, hcmd,
                 ncalls, hsess, hres, herr, actionMu>>
  /\ UNCHANGED <<pipeVars, hookVars, auxVars>>

\* one step of a direct caller inside a Recorder method
method(e) ==
  \/ HStart(e)
  \/ HGo(e)
  \/ HStop(e)
  \/ HCancel(e)
  \/ HCancelCtx(e)
  \/ HRecv(e)
  \/ HTogglePause(e)
  \/ HReturn(e)

\* no controller reads the pipeline's configuration: the default is taken
RecInit == InitCommon /\ specs = HotkeySpecs /\ hook = FALSE /\ cfg = {DefaultConfig} /\ AuxIdle

RecNext ==
  \/ \E m \in Methods : Call(m)
  \/ \E e \in Events : method(e)
  \/ \E w \in Events : recordLoop(w)

RecSpec == RecInit /\ [][RecNext]_vars

-----------------------------------------------------------------------------
(***************************************************************************)
(* hotkey.Register on its own: the caller, the installer goroutine it      *)
(* spawns, and the handshake over errCh, for either strategy.              *)
(***************************************************************************)

progVars == <<recVars, workerVars, files, osVars, callVars, actionMu,
              pipeVars, hookVars>>
InstallVarsRest == <<progVars, parseVars, transVars, jsonVars>>

\* the three definitions, in the order of defs / specs
Defs == CommandIds

\* faulty variant: the last definition is taken to be the second
lastDefEarly(i) == i >= 2
\* `range defs` is at its last element
lastDef(i) == i = Cardinality(Defs)

\* faulty variant: the roll-back leaves the hotkey registered
UnregisterHotKeyNoop(reg, id) == reg
\* UnregisterHotKey(0, id): the OS drops the id
UnregisterHotKey(reg, id) == reg \ {id}

\* the installer's position after `errCh <- v`: the message loop after nil,
\* return after an error
AfterSignal(v) == IF v = "nil" THEN "loop" ELSE "returned"

\* Register(...): makes errCh, spawns the installer and waits in select
Register ==
  /\ rret = "none"
  /\ rret' = "pending"
  /\ ipc' = "parseHotkey"
  /\ idef' = 1
  /\ UNCHANGED <<iod, isig, errCh, signals, timer, registered, hooked>>
  /\ UNCHANGED InstallVarsRest

\* mod, vk, err := parseHotkey(spec) for the definition idef
IParseHotkey ==
  /\ ipc = "parseHotkey"
  /\ \E ok \in BOOLEAN :
       IF ~ok
         THEN /\ isig' = "invalid hotkey"
              /\ ipc' = "send"
              /\ UNCHANGED idef
         ELSE IF lastDef(idef)
           THEN /\ ipc' = IF hook THEN "SetWindowsHookExW" ELSE "RegisterHotKey"
                /\ idef' = 1
                /\ UNCHANGED isig
           ELSE /\ idef' = idef + 1
                /\ UNCHANGED <<ipc, isig>>
  /\ UNCHANGED <<rret, iod, errCh, signals, timer, registered, hooked>>
  /\ UNCHANGED InstallVarsRest

\* r := RegisterHotKey(0, d.id, d.mod, d.vk) for the definition idef
IRegisterHotKey ==
  /\ ipc = "RegisterHotKey"
  /\ \E r \in BOOLEAN :
       IF ~r
         THEN /\ ipc' = "UnregisterHotKey"
              /\ iod' = 1
              /\ UNCHANGED <<idef, isig, registered>>
         ELSE /\ registered' = registered \cup {idef}
              /\ IF lastDef(idef)
                   THEN /\ isig' = "nil"
                        /\ ipc' = "send"
                        /\ UNCHANGED idef
                   ELSE /\ idef' = idef + 1
                        /\ UNCHANGED <<ipc, isig>>
              /\ UNCHANGED iod
  /\ UNCHANGED <<rret, errCh, signals, timer, hooked>>
  /\ UNCHANGED InstallVarsRest

\* one turn of the roll-back loop `for _, od := range defs`
IUnregisterHotKey ==
  /\ ipc = "UnregisterHotKey"
  /\ IF iod = idef
       THEN /\ isig' = "RegisterHotKey failed"
            /\ ipc' = "send"
            /\ UNCHANGED <<iod, registered>>
       ELSE /\ registered' = UnregisterHotKey(registered, iod)
            /\ iod' = iod + 1
            /\ UNCHANGED <<ipc, isig>>
  /\ UNCHANGED <<rret, idef, errCh, signals, timer, hooked>>
  /\ UNCHANGED InstallVarsRest

\* hook := SetWindowsHookExW(WH_KEYBOARD_LL, callback, 0, 0)
ISetWindowsHookExW ==
  /\ ipc = "SetWindowsHookExW"
  /\ \E h \in BOOLEAN :
       /\ hooked' = h
       /\ isig' = IF h THEN "nil" ELSE "SetWindowsHookExW failed"
  /\ ipc' = "send"
  /\ UNCHANGED <<rret, idef, iod, errCh, signals, timer, registered>>
  /\ UNCHANGED InstallVarsRest

\* errCh <- isig: waits while the one slot is taken
ISend ==
  /\ ipc = "send"
  /\ Len(errCh) < 1
  /\ errCh' = Append(errCh, isig)
  /\ signals' = signals + 1
  /\ ipc' = AfterSignal(isig)
  /\ UNCHANGED <<rret, idef, iod, isig, timer, registered, hooked>>
  /\ UNCHANGED InstallVarsRest

\* GetMessageW returns -1 (or 0 under the hook): the loop is left
ILoopExit ==
  /\ ipc = "loop"
  /\ ipc' = IF hook THEN "UnhookWindowsHookEx" ELSE "returned"
  /\ UNCHANGED <<rret, idef, iod, isig, errCh, signals, timer, registered,
                 hooked>>
  /\ UNCHANGED InstallVarsRest

\* procUnhookWindowsHookEx.Call(hook)
IUnhookWindowsHookEx ==
  /\ ipc = "UnhookWindowsHookEx"
  /\ hooked' = FALSE
  /\ ipc' = "returned"
  /\ UNCHANGED <<rret, idef, iod, isig, errCh, signals, timer, registered>>
  /\ UNCHANGED InstallVarsRest

\* the installer goroutine
installer ==
  \/ IParseHotkey
  \/ IRegisterHotKey
  \/ IUnregisterHotKey
  \/ ISetWindowsHookExW
  \/ ISend
  \/ ILoopExit
  \/ IUnhookWindowsHookEx

\* two seconds have passed since Register reached its select
TimeAfter ==
  /\ rret = "pending"
  /\ ~timer
  /\ timer' = TRUE
  /\ UNCHANGED <<rret, ipc, idef, iod, isig, errCh, signals, registered,
                 hooked>>
  /\ UNCHANGED InstallVarsRest

\* case err := <-errCh: return err
SelectErrCh ==
  /\ rret = "pending"
  /\ errCh # <<>>
  /\ rret' = Head(errCh)
  /\ errCh' = Tail(errCh)
  /\ UNCHANGED <<ipc, idef, iod, isig, signals, timer, registered, hooked>>
  /\ UNCHANGED InstallVarsRest

\* case <-time.After(2 * time.Second): return the timeout error
SelectTimeout ==
  /\ rret = "pending"
  /\ timer
  /\ rret' = "timeout"
  /\ UNCHANGED <<ipc, idef, iod, isig, errCh, signals, timer, registered,
                 hooked>>
  /\ UNCHANGED InstallVarsRest

InstallInit ==
  InitCommon /\ specs = HotkeySpecs /\ hook \in BOOLEAN /\ cfg = {DefaultConfig} /\ AuxIdle

InstallNext ==
  \/ Register
  \/ installer
  \/ TimeAfter
  \/ SelectErrCh
  \/ SelectTimeout

InstallSpec == InstallInit /\ [][InstallNext]_vars

-----------------------------------------------------------------------------
(***************************************************************************)
(* parseHotkey on its own.  A string is the sequence of its characters.    *)
(***************************************************************************)

VK_NUMPAD0 == 96
VK_ADD == 107
VK_SUBTRACT == 109

Letters == <<"a", "b", "c", "d", "e", "f", "g", "h", "i", "j", "k", "l",
    "m", "n", "o", "p", "q", "r", "s", "t", "u", "v", "w", "x", "y", "z">>
Capitals == <<"A", "B", "C", "D", "E", "F", "G", "H", "I", "J", "K", "L",
    "M", "N", "O", "P", "Q", "R", "S", "T", "U", "V", "W", "X", "Y", "Z">>
Digits == <<"0", "1", "2", "3", "4", "5", "6", "7", "8", "9">>

\* the position of character c in seq
Index(seq, c) == CHOOSE i \in DOMAIN seq : seq[i] = c
In(seq, c) == \E i \in DOMAIN seq : seq[i] = c

\* the code of a character that is neither a letter nor a digit
CharCode == [c \in {";", "-", "=", " "} |->
               CASE c = ";" -> 59 [] c = "-" -> 45 [] c = "=" -> 61
                 [] c = " " -> 32]

\* the byte value of character c
Ord(c) ==
  IF In(Capitals, c) THEN 64 + Index(Capitals, c)
  ELSE IF In(Letters, c) THEN 96 + Index(Letters, c)
  ELSE IF In(Digits, c) THEN 47 + Index(Digits, c)
  ELSE CharCode[c]

\* strings.ToLower(s)
ToLower(s) ==
  [i \in DOMAIN s |->
     IF In(Capitals, s[i]) THEN Letters[Index(Capitals, s[i])] ELSE s[i]]
\* strings.ToUpper(s)
ToUpper(s) ==
  [i \in DOMAIN s |->
     IF In(Letters, s[i]) THEN Capitals[Index(Letters, s[i])] ELSE s[i]]

\* faulty variant: nothing is trimmed
TrimSpaceNone(s) == s

\* strings.TrimSpace(s)
TrimSpace(s) ==
  LET kept == {i \in DOMAIN s : s[i] \notin {" ", "\t"}}
  IN  IF kept = {} THEN <<>>
      ELSE SubSeq(s, CHOOSE i \in kept : \A j \in kept : i <= j,
                     CHOOSE i \in kept : \A j \in kept : i >= j)

\* strings.Split(s, "+")
RECURSIVE Split(_)
Split(s) ==
  IF In(s, "+")
    THEN LET i == CHOOSE k \in DOMAIN s :
                    s[k] = "+" /\ \A j \in 1..(k - 1) : s[j] # "+"
         IN  <<SubSeq(s, 1, i - 1)>> \o Split(SubSeq(s, i + 1, Len(s)))
    ELSE <<s>>

\* strings.HasPrefix(s, p), strings.TrimPrefix(s, p)
HasPrefix(s, p) == Len(s) >= Len(p) /\ SubSeq(s, 1, Len(p)) = p
TrimPrefix(s, p) == IF HasPrefix(s, p) THEN SubSeq(s, Len(p) + 1,
    Len(s)) ELSE s

\* the value of a string of decimal digits
RECURSIVE Decimal(_)
Decimal(s) ==
  IF s = <<>> THEN 0
  ELSE 10 * Decimal(SubSeq(s, 1, Len(s) - 1)) + (Index(Digits, s[Len(s)]) - 1)

\* strconv.Atoi(s): an optional sign, then one or more decimal digits
Atoi(s) ==
  LET signed == s # <<>> /\ s[1] \in {"+", "-"}
      ds == IF signed THEN Tail(s) ELSE s
  IN  IF ds = <<>> \/ \E i \in DOMAIN ds : ~In(Digits, ds[i])
        THEN [err |-> TRUE, n |-> 0]
        ELSE [err |-> FALSE,
              n |-> IF signed /\ s[1] = "-" THEN 0 - Decimal(ds) ELSE Decimal(ds)]

\* what parseHotkey returns: (mod, vk, nil) or (0, 0, err)
Parsed(mod, vk) == [err |-> FALSE, mod |-> mod, vk |-> vk]
ParseError == [err |-> TRUE, mod |-> 0, vk |-> 0]

\* faulty variant: the second names of the modifiers are not known
ModBitNoAlias(p) ==
  IF p = <<"a", "l", "t">> THEN 1
  ELSE IF p = <<"c", "t", "r", "l">> THEN 2
  ELSE IF p = <<"s", "h", "i", "f", "t">> THEN 4
  ELSE IF p = <<"w", "i", "n">> THEN 8
  ELSE 0
\* the bit a token before the key token adds to mod (0: `default:`)
ModBit(p) ==
  IF p \in {<<"a", "l", "t">>, <<"m", "e", "n", "u">>} THEN 1
  ELSE IF p \in {<<"c", "t", "r", "l">>, <<"c", "o", "n", "t", "r", "o",
      "l">>} THEN 2
  ELSE IF p = <<"s", "h", "i", "f", "t">> THEN 4
  ELSE IF p \in {<<"w", "i", "n">>, <<"m", "e", "t", "a">>, <<"s", "u",
      "p", "e", "r">>} THEN 8
  ELSE 0

\* faulty variant: only the token next to the key token counts
ModMaskLast(parts) ==
  IF Len(parts) < 2 THEN 0 ELSE ModBit(parts[Len(parts) - 1])

\* mod after the loop over parts[:len(parts)-1]
ModMask(parts) ==
  LET bits == {ModBit(parts[i]) : i \in 1..(Len(parts) - 1)}
  IN  (IF 1 \in bits THEN 1 ELSE 0) + (IF 2 \in bits THEN 2 ELSE 0)
        + (IF 4 \in bits THEN 4 ELSE 0) + (IF 8 \in bits THEN 8 ELSE 0)

\* the numpad digit a key token names, -1 if none (numpadN, numN, kpN)
NumpadDigit(t) ==
  LET ns == {n \in 0..9 : \E p \in {<<"n", "u", "m", "p", "a", "d">>,
      <<"n", "u", "m">>, <<"k", "p">>} :
                            t = p \o <<Digits[n + 1]>>}
  IN  IF ns = {} THEN 0 - 1 ELSE CHOOSE n \in ns : TRUE

\* the map `named`
named ==
  <<
     <<<<"t", "a", "b">>, 9>>,
     <<<<"b", "a", "c", "k", "s", "p", "a", "c", "e">>, 8>>,
     <<<<"i", "n", "s", "e", "r", "t">>, 45>>,
     <<<<"d", "e", "l", "e", "t", "e">>, 46>>,
     <<<<"h", "o", "m", "e">>, 36>>,
     <<<<"e", "n", "d">>, 35>>,
     <<<<"p", "a", "g", "e", "u", "p">>, 33>>,
     <<<<"p", "a", "g", "e", "d", "o", "w", "n">>, 34>>,
     <<<<"l", "e", "f", "t">>, 37>>,
     <<<<"u", "p">>, 38>>,
     <<<<"r", "i", "g", "h", "t">>, 39>>,
     <<<<"d", "o", "w", "n">>, 40>>
  >>
IsNamed(t) == \E i \in DOMAIN named : named[i][1] = t

\* the last test of parseHotkey: len(keyToken) == 1
SingleChar(t) == Len(t) = 1

\* the part of parseHotkey after keyToken and mod are known
KeyOf(mod, t) ==
  IF Len(t) = 1 /\ In(Letters, t[1]) THEN Parsed(mod,
      Ord(t[1]) - Ord("a") + Ord("A"))
  ELSE IF Len(t) = 1 /\ In(Digits, t[1]) THEN Parsed(mod, Ord(t[1]))
  ELSE IF t \in {<<"e", "s", "c">>, <<"e", "s", "c", "a", "p",
      "e">>} THEN Parsed(mod, 27)
  ELSE IF t = <<"s", "p", "a", "c", "e">> THEN Parsed(mod, 32)
  ELSE IF t \in {<<"e", "n", "t", "e", "r">>, <<"r", "e", "t", "u", "r",
      "n">>} THEN Parsed(mod, 13)
  ELSE IF /\ HasPrefix(t, <<"f">>)
          /\ ~Atoi(TrimPrefix(t, <<"f">>)).err
          /\ Atoi(TrimPrefix(t, <<"f">>)).n >= 1
          /\ Atoi(TrimPrefix(t, <<"f">>)).n <= 24
    THEN Parsed(mod, 112 + (Atoi(TrimPrefix(t, <<"f">>)).n - 1))
  ELSE IF NumpadDigit(t) >= 0 THEN Parsed(mod, VK_NUMPAD0 + NumpadDigit(t))
  ELSE IF t \in {<<"a", "d", "d">>, <<"p", "l", "u", "s">>, <<"k", "p",
      "a", "d", "d">>} THEN Parsed(mod, VK_ADD)
  ELSE IF t \in {<<"s", "u", "b", "t", "r", "a", "c", "t">>, <<"m", "i",
      "n", "u", "s">>, <<"k", "p", "s", "u", "b", "t", "r", "a", "c",
          "t">>} THEN Parsed(mod, VK_SUBTRACT)
  ELSE IF IsNamed(t)
    THEN Parsed(mod, named[CHOOSE i \in DOMAIN named : named[i][1] = t][2])
  ELSE IF SingleChar(t) THEN Parsed(mod, Ord(ToUpper(t)[1]))
  ELSE ParseError

\* parts after the loop `parts[i] = strings.TrimSpace(strings.ToLower(parts[i]))`
Parts(s) == [i \in DOMAIN Split(s) |-> TrimSpace(ToLower(Split(s)[i]))]

\* parseHotkey(s)
parseHotkey(s) ==
  IF s = <<>> THEN ParseError
  ELSE KeyOf(ModMask(Parts(s)), Parts(s)[Len(Parts(s))])

\* The hotkey specs explored: up to MaxMods tokens before the key token,
\* joined by "+"
MaxMods == 2

ModTokens ==
  {<<"a", "l", "t">>, <<"c", "t", "r", "l">>, <<"C", "t", "r", "l">>,
   <<" ", "s", "h", "i", "f", "t">>, <<"w", "i", "n">>,
   <<"m", "e", "n", "u">>, <<"c", "o", "n", "t", "r", "o", "l">>,
   <<"M", "E", "T", "A", " ">>, <<"s", "u", "p", "e", "r">>,
   <<"h", "y", "p", "e", "r">>, <<"n", "u", "m", "p", "a", "d">>}

KeyTokens ==
  {<<"q">>, <<"Q">>, <<"z">>, <<" ", "w">>, <<"7">>, <<"0">>, <<"f", "1">>,
   <<"F", "1", "2">>, <<"f", "2", "4">>, <<"f", "2", "5">>, <<"f", "0">>,
   <<"f">>, <<"f", "1", "x">>, <<"f", "-", "1">>, <<"e", "s", "c">>,
   <<"E", "s", "c", "a", "p", "e">>, <<"s", "p", "a", "c", "e">>,
   <<"e", "n", "t", "e", "r">>, <<"r", "e", "t", "u", "r", "n">>,
   <<"n", "u", "m", "p", "a", "d", "1">>, <<"n", "u", "m", "0">>,
   <<"k", "p", "9">>, <<"n", "u", "m", "p", "a", "d">>, <<"a", "d", "d">>,
   <<"p", "l", "u", "s">>, <<"k", "p", "a", "d", "d">>,
   <<"s", "u", "b", "t", "r", "a", "c", "t">>, <<"m", "i", "n", "u", "s">>,
   <<"k", "p", "s", "u", "b", "t", "r", "a", "c", "t">>, <<"t", "a", "b">>,
   <<"b", "a", "c", "k", "s", "p", "a", "c", "e">>,
   <<"i", "n", "s", "e", "r", "t">>, <<"d", "e", "l", "e", "t", "e">>,
   <<"h", "o", "m", "e">>, <<"e", "n", "d">>,
   <<"p", "a", "g", "e", "u", "p">>,
   <<"p", "a", "g", "e", "d", "o", "w", "n">>, <<"l", "e", "f", "t">>,
   <<"u", "p">>, <<"r", "i", "g", "h", "t">>, <<"d", "o", "w", "n">>, <<>>,
   <<" ">>, <<";">>, <<"-">>, <<"=">>, <<"q", "q">>, <<"a", "l", "t">>}

RECURSIVE Join(_)
Join(tokens) ==
  IF Len(tokens) = 1 THEN tokens[1]
  ELSE tokens[1] \o <<"+">> \o Join(Tail(tokens))

HotkeySpecStrings ==
  {Join(ms \o <<k>>) :
     ms \in UNION {[1..n -> ModTokens] : n \in 0..MaxMods}, k \in KeyTokens}

\* parseHotkey(pspec) is called
ParseHotkey ==
  /\ pres = NoParse
  /\ pres' = parseHotkey(pspec)
  /\ UNCHANGED pspec
  /\ UNCHANGED <<progVars, instVars, transVars, jsonVars>>

ParseInit ==
  /\ InitCommon
  /\ specs = HotkeySpecs
  /\ hook = FALSE
  /\ cfg = {DefaultConfig}
  /\ pspec \in HotkeySpecStrings
  /\ pres = NoParse
  /\ TranscribeIdle
  /\ ExtractIdle

ParseNext == ParseHotkey

ParseSpec == ParseInit /\ [][ParseNext]_vars

-----------------------------------------------------------------------------
(***************************************************************************)
(* Client.Transcribe on its own: the retry loop around doUpload.           *)
(***************************************************************************)

\* the configurations explored: MaxRetry up to MaxRetryMax (and 0, -1),
\* RetryBaseDelay 0, 1 or 2 seconds, APIEndpoint empty or not
MaxRetryMax == 3
ClientConfigs ==
  {ClientConfig(m, b, e) : m \in (0 - 1)..MaxRetryMax, b \in {0, 1, 2},
                           e \in BOOLEAN}

TranscribeVarsRest == <<progVars, instVars, parseVars, jsonVars>>

\* fmt.Errorf(format, ...) without %w: an error of the errors package
Errorf == Error("*errors.errorString", 0, 0)

\* faulty variant: one attempt more before giving up
exhaustedLate(t, c) == t > c.MaxRetry

\* try >= c.cfg.MaxRetry
exhausted(t, c) == t >= c.MaxRetry

\* errors.As(err, &re) with re of type *RetryExhaustedError (no error in
\* the program wraps another)
AsRetryExhaustedError(err) == err.type = "*RetryExhaustedError"

\* Transcribe up to the loop
TEnter ==
  /\ tpc = "Transcribe"
  /\ IF ~tcfg.APIEndpoint
       THEN /\ tret' = Errorf
            /\ tpc' = "returned"
            /\ UNCHANGED <<try, delay>>
       ELSE /\ try' = 0
            /\ delay' = tcfg.RetryBaseDelay
            /\ tpc' = "doUpload"
            /\ UNCHANGED tret
  /\ UNCHANGED <<tcfg, uploads>>
  /\ UNCHANGED TranscribeVarsRest

\* try++; ok, res := c.doUpload(ctx, filePath); return on ok or when the
\* tries are used up
TDoUpload ==
  /\ tpc = "doUpload"
  /\ try' = try + 1
  /\ \E ok \in BOOLEAN :
       /\ uploads' = Append(uploads, ok)
       /\ IF ok
            THEN tret' = Nil /\ tpc' = "returned"
            ELSE IF exhausted(try', tcfg)
              THEN tret' = Errorf /\ tpc' = "returned"
              ELSE tpc' = "Sleep" /\ UNCHANGED tret
  /\ UNCHANGED <<tcfg, delay>>
  /\ UNCHANGED TranscribeVarsRest

\* time.Sleep(delay); delay *= 2
TSleep ==
  /\ tpc = "Sleep"
  /\ delay' = delay * 2
  /\ tpc' = "doUpload"
  /\ UNCHANGED <<tcfg, try, tret, uploads>>
  /\ UNCHANGED TranscribeVarsRest

Transcribe == TEnter \/ TDoUpload \/ TSleep

TranscribeInit ==
  /\ InitCommon
  /\ specs = HotkeySpecs
  /\ hook = FALSE
  /\ cfg = {DefaultConfig}
  /\ ParserIdle
  /\ ExtractIdle
  /\ tcfg \in ClientConfigs
  /\ tpc = "Transcribe"
  /\ try = 0
  /\ delay = 0
  /\ tret = Nil
  /\ uploads = <<>>

TranscribeNext == Transcribe

TranscribeSpec == TranscribeInit /\ [][TranscribeNext]_vars

\* Scheduling: the goroutine calling Transcribe keeps running, doUpload
\* returns (the request has a timeout) and time.Sleep ends
FairTranscribeSpec == TranscribeSpec /\ WF_vars(Transcribe)

-----------------------------------------------------------------------------
(***************************************************************************)
(* jsonpath.ExtractByPath on its own.  A JSON value as json.Unmarshal      *)
(* gives it: a string, a float64, a bool, nil, a map[string]interface{} or *)
(* a []interface{}; strings are sequences of characters.                   *)
(***************************************************************************)

Str(s) == [t |-> "string", v |-> s]
Num(n) == [t |-> "float64", v |-> n]
Bool(b) == [t |-> "bool", v |-> b]
Null == [t |-> "nil", v |-> 0]
Map(m) == [t |-> "map", v |-> m]
Arr(a) == [t |-> "slice", v |-> a]

\* a map literal: the keys with their values
MapOf(pairs) ==
  [k \in {pairs[i][1] : i \in DOMAIN pairs} |->
     pairs[CHOOSE i \in DOMAIN pairs : pairs[i][1] = k][2]]

\* the document of TestExtractByPath, with a number, a bool, a null and a
\* nested array added
Document ==
  Map(MapOf(<<
    <<<<"t", "e", "x", "t">>, Str(<<"h", "e", "l", "l", "o">>)>>,
    <<<<"n">>, Num(0 - 3)>>,
    <<<<"b">>, Bool(TRUE)>>,
    <<<<"z">>, Null>>,
    <<<<"d", "a", "t", "a">>,
      Map(MapOf(<< <<<<"i", "t", "e", "m", "s">>,
        Arr(<<Map(MapOf(<< <<<<"v", "a", "l", "u", "e">>, Str(<<"a">>)>> >>)),
              Map(MapOf(<< <<<<"v", "a", "l", "u", "e">>, Str(<<"b">>)>> >>))
            >>)>> >>))>>,
    <<<<"g", "r", "i", "d">>,
      Arr(<<Arr(<<Str(<<"x">>)>>), Arr(<<Num(42)>>)>>)>> >>))

\* strings.Split(path, ".")
RECURSIVE SplitPath(_)
SplitPath(s) ==
  IF In(s, ".")
    THEN LET i == CHOOSE k \in DOMAIN s :
                    s[k] = "." /\ \A j \in 1..(k - 1) : s[j] # "."
         IN  <<SubSeq(s, 1, i - 1)>> \o SplitPath(SubSeq(s, i + 1, Len(s)))
    ELSE <<s>>

\* strings.Index(s, c) for a one-character c, counted from 0; -1 if absent
IndexOf(s, c) ==
  IF In(s, c)
    THEN (CHOOSE k \in DOMAIN s : s[k] = c /\ \A j \in 1..(k - 1) : s[j] # c)
           - 1
    ELSE 0 - 1

\* what ParseKeyAndIndexes returns: (key, idxs, nil) or ("", nil, err)
KeyAndIndexes(key, idxs) == [err |-> FALSE, key |-> key, idxs |-> idxs]
TokenError == [err |-> TRUE, key |-> <<>>, idxs |-> <<>>]

\* the loop `for len(rest) > 0` of ParseKeyAndIndexes: the indexes of rest,
\* or an error
RECURSIVE ParseIndexes(_)
ParseIndexes(rest) ==
  IF rest = <<>> THEN [err |-> FALSE, idxs |-> <<>>]
  ELSE IF ~HasPrefix(rest, <<"[">>) THEN [err |-> TRUE, idxs |-> <<>>]
  ELSE LET closePos == IndexOf(rest, "]")
           numStr == SubSeq(rest, 2, closePos)
           more == ParseIndexes(SubSeq(rest, closePos + 2, Len(rest)))
       IN  IF closePos = 0 - 1 THEN [err |-> TRUE, idxs |-> <<>>]
           ELSE IF numStr = <<>> THEN [err |-> TRUE, idxs |-> <<>>]
           ELSE IF Atoi(numStr).err THEN [err |-> TRUE, idxs |-> <<>>]
           ELSE IF more.err THEN more
           ELSE [err |-> FALSE, idxs |-> <<Atoi(numStr).n>> \o more.idxs]

\* ParseKeyAndIndexes(token)
ParseKeyAndIndexes(token) ==
  LET br == IndexOf(token, "[")
      r == ParseIndexes(SubSeq(token, br + 1, Len(token)))
  IN  IF token = <<>> THEN TokenError
      ELSE IF br = 0 - 1 THEN KeyAndIndexes(token, <<>>)
      ELSE IF r.err THEN TokenError
      ELSE KeyAndIndexes(SubSeq(token, 1, br), r.idxs)

\* what a step along the path gives: the value reached, or nothing
Reached(v) == [ok |-> TRUE, cur |-> v]
Nothing == [ok |-> FALSE, cur |-> Null]

\* if key != "" { m, ok := cur.(map...); next, exists := m[key]; ... }
LookupKey(cur, key) ==
  IF key = <<>> THEN Reached(cur)
  ELSE IF cur.t # "map" THEN Nothing
  ELSE IF key \notin DOMAIN cur.v THEN Nothing
  ELSE Reached(cur.v[key])

\* for _, idx := range idxs { arr, ok := cur.([]interface{}); ... }
RECURSIVE IndexInto(_, _)
IndexInto(cur, idxs) ==
  IF idxs = <<>> THEN Reached(cur)
  ELSE IF cur.t # "slice" THEN Nothing
  ELSE IF Head(idxs) < 0 \/ Head(idxs) >= Len(cur.v) THEN Nothing
  ELSE IndexInto(cur.v[Head(idxs) + 1], Tail(idxs))

\* fmt.Sprintf("%d", int64(v)) for -99 <= v <= 99
Sprintf_d(n) ==
  LET a == IF n < 0 THEN 0 - n ELSE n
      ds == IF a < 10 THEN <<Digits[a + 1]>>
            ELSE <<Digits[(a \div 10) + 1], Digits[(a % 10) + 1]>>
  IN  IF n < 0 THEN <<"-">> \o ds ELSE ds

\* fmt.Sprintf("%v", v) for a bool
Sprintf_v(b) ==
  IF b THEN <<"t", "r", "u", "e">> ELSE <<"f", "a", "l", "s", "e">>

\* faulty variant: only a string is taken for a leaf
leafStringOnly(cur) ==
  IF cur.t = "string" THEN Found(cur.v) ELSE NotFound

\* switch v := cur.(type): the value at the end of the path as a string
\* (the numbers of the documents explored are whole)
leaf(cur) ==
  IF cur.t = "string" THEN Found(cur.v)
  ELSE IF cur.t = "float64" THEN Found(Sprintf_d(cur.v))
  ELSE IF cur.t = "bool" THEN Found(Sprintf_v(cur.v))
  ELSE NotFound

\* the loop `for _, part := range parts` and the final switch
RECURSIVE Walk(_, _)
Walk(cur, parts) ==
  IF parts = <<>> THEN leaf(cur)
  ELSE LET p == ParseKeyAndIndexes(Head(parts))
           k == LookupKey(cur, p.key)
           i == IndexInto(k.cur, p.idxs)
       IN  IF p.err THEN NotFound
           ELSE IF ~k.ok THEN NotFound
           ELSE IF ~i.ok THEN NotFound
           ELSE Walk(i.cur, Tail(parts))

\* ExtractByPath(root, path)
ExtractByPath(root, path) ==
  IF path = <<>> THEN NotFound ELSE Walk(root, SplitPath(path))

\* The paths explored: up to MaxSegments segments joined by "."; with each
\* segment, the key and indexes it is written to mean (wf: it is written
\* as a key followed by [n] indexes, or as [n] indexes alone)
MaxSegments == 3

PathTokens ==
  {
     [text |-> <<"d", "a", "t", "a">>,
      key |-> <<"d", "a", "t", "a">>, idxs |-> <<>>, wf |-> TRUE],
     [text |-> <<"i", "t", "e", "m", "s", "[", "1", "]">>,
      key |-> <<"i", "t", "e", "m", "s">>, idxs |-> <<1>>, wf |-> TRUE],
     [text |-> <<"i", "t", "e", "m", "s", "[", "9", "]">>,
      key |-> <<"i", "t", "e", "m", "s">>, idxs |-> <<9>>, wf |-> TRUE],
     [text |-> <<"i", "t", "e", "m", "s", "[", "-", "1", "]">>,
      key |-> <<"i", "t", "e", "m", "s">>, idxs |-> <<0 - 1>>, wf |-> TRUE],
     [text |-> <<"v", "a", "l", "u", "e">>,
      key |-> <<"v", "a", "l", "u", "e">>, idxs |-> <<>>, wf |-> TRUE],
     [text |-> <<"n">>,
      key |-> <<"n">>, idxs |-> <<>>, wf |-> TRUE],
     [text |-> <<"z">>,
      key |-> <<"z">>, idxs |-> <<>>, wf |-> TRUE],
     [text |-> <<"b">>,
      key |-> <<"b">>, idxs |-> <<>>, wf |-> TRUE],
     [text |-> <<"g", "r", "i", "d", "[", "1", "]", "[", "0", "]">>,
      key |-> <<"g", "r", "i", "d">>, idxs |-> <<1, 0>>, wf |-> TRUE],
     [text |-> <<"[", "0", "]">>,
      key |-> <<>>, idxs |-> <<0>>, wf |-> TRUE],
     [text |-> <<>>,
      key |-> <<>>, idxs |-> <<>>, wf |-> FALSE],
     [text |-> <<"i", "t", "e", "m", "s", "[", "x", "]">>,
      key |-> <<>>, idxs |-> <<>>, wf |-> FALSE],
     [text |-> <<"i", "t", "e", "m", "s", "[", "1", "]", "x">>,
      key |-> <<>>, idxs |-> <<>>, wf |-> FALSE],
     [text |-> <<"i", "t", "e", "m", "s", "[">>,
      key |-> <<>>, idxs |-> <<>>, wf |-> FALSE],
     [text |-> <<"i", "t", "e", "m", "s", "[", "]">>,
      key |-> <<>>, idxs |-> <<>>, wf |-> FALSE] }

RECURSIVE JoinPath(_)
JoinPath(tokens) ==
  IF Len(tokens) = 1 THEN tokens[1].text
  ELSE tokens[1].text \o <<".">> \o JoinPath(Tail(tokens))

\* ExtractByPath(Document, jpath) is called
Extract ==
  /\ jpc = "ExtractByPath"
  /\ jres' = ExtractByPath(Document, jpath)
  /\ jpc' = "returned"
  /\ UNCHANGED <<jpath, jsegs>>
  /\ UNCHANGED <<progVars, instVars, parseVars, transVars>>

ExtractInit ==
  /\ InitCommon
  /\ specs = HotkeySpecs
  /\ hook = FALSE
  /\ cfg = {DefaultConfig}
  /\ ParserIdle
  /\ TranscribeIdle
  /\ jsegs \in UNION {[1..n -> PathTokens] : n \in 1..MaxSegments}
  /\ jpath = JoinPath(jsegs)
  /\ jpc = "ExtractByPath"
  /\ jres = NotFound

ExtractNext == Extract

ExtractSpec == ExtractInit /\ [][ExtractNext]_vars

-----------------------------------------------------------------------------
(***************************************************************************)
(* Properties.                                                             *)
(***************************************************************************)

\* worker w has been spawned and recordLoop has not returned
Alive(w) == wpc[w] \notin {"none", "returned"}

\* handler invocation e holds actionMu: it is between Lock and the deferred Unlock
InCritical(e) == hpc[e] \notin (Inactive \cup {"Lock"})

\* the pipeline part of the handling of a stop
InPipeline(e) == hpc[e] \in {"Convert", "Transcribe", "PasteText", "handleCache"}

\* caller e had Stop or Cancel accepted and the call has returned to it (e is
\* in the rest of the handling, up to its own return)
Returned(e) == hsess[e] # 0 /\ hpc[e] \notin {"cancel", "recv"}

\* C1: at most one capture worker (spawned, not yet returned) exists at any
\* instant, whatever the interleaving of commands and worker steps.
C1_AtMostOneWorker ==
  Cardinality({w \in Events : Alive(w)}) <= 1

\* C2: the handling of one command is a critical section: no two handler
\* invocations are past actionMu.Lock() at once, the one that is holds
\* actionMu, and while a pipeline runs no other command is being handled.
C2_HandlingSerialized ==
  /\ \A a, b \in Events : InCritical(a) /\ InCritical(b) => a = b
  /\ \A e \in Events : InCritical(e) => actionMu = e
  /\ \A a, b \in Events : InPipeline(a) /\ a # b => hpc[b] \in (Inactive \cup {"Lock"})

\* C2 witness: one command's pipeline is running while another command,
\* already dispatched, waits in actionMu.Lock().
C2_Witness ==
  \E a, b \in Events : InPipeline(a) /\ hpc[b] = "Lock"

\* C3: when Stop or Cancel has returned, the worker of the session it
\* stopped has closed its device stream and its file handle.
C3_TornDownOnReturn ==
  \A e \in Events :
    Returned(e) => hsess[e] \notin streamOpen /\ hsess[e] \notin fileOpen

\* C4: an accepted Cancel returns Canceled = true and no audio path, and when
\* it returns the session's temporary wav file is not on disk.
C4_CancelResult ==
  \A e \in Events :
    (hcmd[e] = 3 /\ Returned(e)) =>
      /\ hres[e].Canceled
      /\ hres[e].WavPath = 0
      /\ Wav(hsess[e]) \notin files

\* C5: a device read failure, an encoder write failure or an encoder close
\* failure during capture ends the session: after the failing call the worker
\* is on its way into finish with the stream and the file closed, the wav
\* file removed and the failure in the Result's error field.
C5_FailureEndsSession ==
  [][\A w \in Events :
       \/ (wpc[w] = "Read" /\ wpc'[w] \notin {"Read", "Write"})
       \/ (wpc[w] = "Write" /\ wpc'[w] \notin {"Write", "loop"})
       \/ (wpc[w] = "close" /\ wpc'[w] # "close" /\ wres'[w].Err)
       => /\ wpc'[w] = "finish"
          /\ wres'[w].Err
          /\ w \notin streamOpen'
          /\ w \notin fileOpen'
          /\ Wav(w) \notin files']_vars

\* C6: when the controller finishes handling a command that stopped or
\* canceled a session, the Recorder state is Idle.
C6_IdleAfterHandling ==
  \A e \in Events :
    (hsess[e] # 0 /\ hpc[e] = "return") => state = StateIdle


\* caller e is blocked in Stop or Cancel, between the accepted state change
\* and the receive from done
Waiting(e) == hpc[e] \in {"cancel", "recv"}

\* C7: under fair scheduling every accepted Stop or Cancel returns, and a
\* Recorder in Stopping or Canceled reaches Idle.
C7_StopCancelTerminate ==
  /\ \A e \in Events : Waiting(e) ~> ~Waiting(e)
  /\ (state \in {StateStopping, StateCanceled}) ~> (state = StateIdle)

\* C7 witness: a caller is blocked on the completion signal of a worker that
\* is still in its capture loop, the Stop or Cancel having been accepted.
C7_Witness ==
  \E e \in Events :
    /\ hpc[e] = "recv"
    /\ chan[hsess[e]] = <<>>
    /\ wpc[hsess[e]] \in {"loop", "Read", "Write"}

\* event e's command has entered the controller's critical section
Entered(e) == hpc[e] \notin {"none", "queued", "Lock"}

\* C8: commands enter the controller's critical section in the order their
\* key events were delivered (events are numbered in delivery order).
C8_HandledInDeliveryOrder ==
  \A a, b \in Events : (a < b /\ Entered(b)) => Entered(a)

\* the interception layer has recognised event e: the message loop has
\* retrieved its WM_HOTKEY message, or the hook has matched its key-down
Recognised(e) == hpc[e] \notin {"none", "queued"}

\* C9: every recognised hotkey event is handled exactly once: its command
\* enters the handler's switch at most once, never before the event is
\* recognised, and under fair scheduling it does so and the handling ends.
C9_HandledExactlyOnce ==
  /\ [](\A e \in Events :
          /\ ncalls[e] <= 1
          /\ ~Recognised(e) => ncalls[e] = 0
          /\ hpc[e] = "finished" => ncalls[e] = 1)
  /\ \A e \in Events : Recognised(e) ~> (hpc[e] = "finished" /\ ncalls[e] = 1)

\* C9 witness: three events have been recognised in a row (rapid repeats),
\* one is being handled and the others wait for actionMu.
C9_Witness ==
  /\ Cardinality({e \in Events : hpc[e] = "Lock"}) >= 2
  /\ \E e \in Events : InCritical(e) /\ ncalls[e] = 1

\* C10: a Start called when the state is not Idle returns "recorder not
\* idle", and a Stop, Cancel or TogglePause called when the state is neither
\* Recording nor Paused returns "recorder not running"; the call changes
\* neither the state, nor the done channel or stop context, nor any worker.
C10_RejectedCallsChangeNothing ==
  [][\A e \in Events :
       /\ (hpc[e] = "Start" /\ state # StateIdle /\ hpc'[e] # hpc[e])
            => /\ herr'[e] = ErrNotIdle
               /\ hpc'[e] = "return"
               /\ UNCHANGED <<recVars, workerVars>>
       /\ (hpc[e] \in {"Stop", "Cancel", "TogglePause"}
             /\ state \notin {StateRecording, StatePaused} /\ hpc'[e] # hpc[e])
            => /\ herr'[e] = ErrNotRunning
               /\ hpc'[e] = "return"
               /\ UNCHANGED <<recVars, workerVars>>]_vars

\* C10 witness: one call has just been rejected with "recorder not idle" and
\* another with "recorder not running", a session being active.
C10_Witness ==
  \E a, b \in Events :
    /\ hpc[a] = "return" /\ herr[a] = ErrNotIdle
    /\ hpc[b] = "return" /\ herr[b] = ErrNotRunning

\* C11: every change of the Recorder's state is one of Idle -> Recording
\* (Start), Recording <-> Paused (TogglePause), Recording or Paused ->
\* Stopping (Stop), Recording or Paused -> Canceled (Cancel), non-Idle ->
\* Idle (the worker's finish), and it is made by the step that is the
\* locked section of that method.
C11_OnlyListedTransitions ==
  [][state' # state =>
       \/ /\ state = StateIdle /\ state' = StateRecording
          /\ \E e \in Events : hpc[e] = "Start" /\ hpc'[e] = "go"
       \/ /\ <<state, state'>> \in {<<StateRecording, StatePaused>>,
                                   <<StatePaused, StateRecording>>}
          /\ \E e \in Events : hpc[e] = "TogglePause" /\ hpc'[e] = "return"
       \/ /\ state \in {StateRecording, StatePaused} /\ state' = StateStopping
          /\ \E e \in Events : hpc[e] = "Stop" /\ hpc'[e] = "cancel"
       \/ /\ state \in {StateRecording, StatePaused} /\ state' = StateCanceled
          /\ \E e \in Events : hpc[e] = "Cancel" /\ hpc'[e] = "cancel"
       \/ /\ state # StateIdle /\ state' = StateIdle
          /\ \E w \in Events : wpc[w] = "finish" /\ wpc'[w] = "send"]_vars

\* C11 witness: a session was started, paused, canceled from Paused and
\* ended by the worker's finish, which has put the state back to Idle.
C11_Witness ==
  /\ state = StateIdle
  /\ \E w \in Events : wpc[w] = "send" /\ wres[w].Canceled

\* C12: a session's result is read exactly once, by the caller that stopped
\* or canceled that session: a caller never holds the result of another
\* session, and once the Recorder has gone on to a later session, a worker
\* that has written its result has had it read.
C12_ResultReadOncePerSession ==
  /\ \A e \in Events :
       hres[e] # NoResult => hres[e].WavPath \in {0, hsess[e]}
  /\ \A s \in Events :
       (done # s /\ wpc[s] \in {"Terminate", "returned"}) => chan[s] = <<>>

\* C13: a Stop that was accepted on a session whose worker met no device or
\* encoder failure returns Canceled = false, no error and the session's
\* path, and when it returns that file exists and is closed.
C13_StopResult ==
  \A e \in Events :
    (/\ hcmd[e] = 1 /\ hsess[e] # 0 /\ ~Waiting(e)
     /\ wpc[hsess[e]] \in {"Terminate", "returned"}
     /\ ~wres[hsess[e]].Err)
    => /\ hres[e] = Result(hsess[e], FALSE, FALSE)
       /\ hpc[e] = "Convert"
            => (Wav(hsess[e]) \in files /\ hsess[e] \notin fileOpen)

\* C14: a TogglePause called in Recording succeeds and leaves Paused, and a
\* TogglePause called in Paused succeeds and leaves Recording; so two calls
\* in a row from Recording both succeed, pass through Paused only and end
\* in Recording.
C14_TogglePauseTwice ==
  [][\A e \in Events :
       (hpc[e] = "TogglePause" /\ hpc'[e] # hpc[e]
          /\ state \in {StateRecording, StatePaused})
       => /\ herr'[e] = ""
          /\ hpc'[e] = "return"
          /\ state' = IF state = StateRecording THEN StatePaused
                                                ELSE StateRecording]_vars

\* C14 witness: the second of two TogglePause calls in a row has just
\* returned without error: both handlings are over, the session that was
\* paused by the first is in Recording again and its worker is capturing.
C14_Witness ==
  \E a, b \in Events :
    /\ a < b
    /\ hpc[a] = "finished"
    /\ hpc[b] = "return" /\ hcmd[b] = 2 /\ herr[b] = ""
    /\ state = StateRecording
    /\ wpc[done] \in {"loop", "Read", "Write"}
    /\ \A c \in Events : c < a => hpc[c] = "finished"


\* the order in which the handler is to call its collaborators
Rank(op) ==
  CASE op = "Convert" -> 1
    [] op = "Transcribe" -> 2
    [] op = "PasteText" -> 3
    [] op = "handleCache" -> 4

\* handler e's Stop returned a Result that is neither canceled nor errored
GoodStop(e) ==
  hcmd[e] = 1 /\ hres[e].WavPath # 0 /\ ~hres[e].Err /\ ~hres[e].Canceled

\* the session whose files handler e's pipeline works on
Artifacts(e) == hres[e].WavPath

\* C15: the handler calls transcode, upload, paste, cache finalize in that
\* order and each at most once, upload only after a successful transcode;
\* the recognised text is pasted only after an upload that succeeded with a
\* non-empty text; a handling of a good Stop result begins with transcode
\* and, when transcode succeeds, ends with cache finalize, after which
\* nothing else is called.
C15_PipelineOrder ==
  \A e \in Events :
    LET cs == hcalls[e]
    IN  /\ \A i, j \in DOMAIN cs : i < j => Rank(cs[i].op) < Rank(cs[j].op)
        /\ cs # <<>> => cs[1].op = "Convert"
        /\ Len(cs) >= 2 => (cs[1].ret = "ok" /\ cs[2].op = "Transcribe")
        /\ \A i \in DOMAIN cs :
             (cs[i].op = "PasteText" /\ cs[i].arg = "text")
               => cs[2].ret = "text"
        /\ (\E i \in DOMAIN cs : cs[i].op = "handleCache")
             => (hpc[e] = "return" /\ cs[Len(cs)].op = "handleCache")
        /\ (GoodStop(e) /\ hpc[e] = "return")
             => /\ cs # <<>>
                /\ cs[1].ret = "ok" => cs[Len(cs)].op = "handleCache"

\* C15 witness: a handling has gone through the whole pipeline: transcode,
\* upload with a text, paste of that text, cache finalize.
C15_Witness ==
  \E e \in Events :
    /\ hpc[e] = "return"
    /\ Len(hcalls[e]) = 4
    /\ hcalls[e][2] = Invocation("Transcribe", "", "text")
    /\ hcalls[e][3].op = "PasteText" /\ hcalls[e][3].arg = "text"
    /\ hcalls[e][4].op = "handleCache"

\* C16: a handler whose Stop returned a canceled or errored Result calls no
\* collaborator and returns.
C16_NoPipelineOnBadResult ==
  \A e \in Events :
    (hcmd[e] = 1 /\ (hres[e].Canceled \/ hres[e].Err))
      => (hcalls[e] = <<>> /\ hpc[e] = "return")

\* C16 witness: an accepted Stop has returned an errored Result to the
\* handler.
C16_Witness ==
  \E e \in Events :
    hcmd[e] = 1 /\ hsess[e] # 0 /\ hres[e].Err /\ hpc[e] = "return"

\* C17: after a failed transcode the handler calls nothing else and
\* returns, and neither the wav file nor the transcode output exists, under
\* its temporary name or in the cache directory.
C17_TranscodeFailure ==
  \A e \in Events :
    (hcalls[e] # <<>> /\ hcalls[e][1].ret = "error")
      => /\ Len(hcalls[e]) = 1
         /\ hpc[e] = "return"
         /\ files \cap {Wav(Artifacts(e)), Out(Artifacts(e)),
                        CachedWav(Artifacts(e)), CachedOut(Artifacts(e))} = {}

\* C17 witness: transcode has failed in a run whose configuration may have
\* keep-cache with a cache directory as well as not.
C17_Witness ==
  \E e \in Events :
    /\ hcalls[e] = <<Invocation("Convert", "", "error")>>
    /\ \E c, d \in cfg : (c.KeepCache /\ c.CacheDir) /\ ~d.KeepCache

\* a call of handler e that failed
Failed(e, op) ==
  \E i \in DOMAIN hcalls[e] :
    hcalls[e][i].op = op /\ hcalls[e][i].ret \in {"error", "RetryExhaustedError"}

\* C18: when a handling in which upload or paste failed ends, cache
\* finalize has run and neither artifact exists under its temporary name;
\* unless keep-cache is set together with a cache directory, neither is in
\* the cache directory.
C18_NoTempLeftAfterFailure ==
  \A e \in Events :
    (hpc[e] = "return" /\ (Failed(e, "Transcribe") \/ Failed(e, "PasteText")))
      => /\ hcalls[e][Len(hcalls[e])].op = "handleCache"
         /\ Wav(Artifacts(e)) \notin files
         /\ Out(Artifacts(e)) \notin files
         /\ (\E c \in cfg : ~(c.KeepCache /\ c.CacheDir))
              => /\ CachedWav(Artifacts(e)) \notin files
                 /\ CachedOut(Artifacts(e)) \notin files

\* C18 witness: the upload failed, keep-cache is set with a cache
\* directory, the wav file was renamed into it and the rename of the
\* transcode output failed, so that file was removed.
C18_Witness ==
  \E e \in Events :
    /\ hpc[e] = "return"
    /\ Failed(e, "Transcribe")
    /\ \A c \in cfg : c.KeepCache /\ c.CacheDir
    /\ CachedWav(Artifacts(e)) \in files
    /\ CachedOut(Artifacts(e)) \notin files
    /\ Out(Artifacts(e)) \notin files


\* C19: a call of the callback for an event with the injected flag returns
\* what CallNextHookEx returns, starts no handler and leaves the swallowed
\* map as it was.
C19_InjectedForwarded ==
  [][(hookEv' # NoEvent /\ Bit(hookEv'.flags, LLKHF_INJECTED))
       => /\ hookEv'.ret = Forwarded
          /\ hookEv'.id = 0
          /\ UNCHANGED <<swallowed, nextEv, hcmd, hpc>>]_vars

\* C19 witness: an injected key-down of q with Ctrl down (the pause hotkey)
\* has been forwarded while q is marked swallowed.
C19_Witness ==
  /\ hookEv.nCode = 0
  /\ Bit(hookEv.flags, LLKHF_INJECTED)
  /\ hookEv.msg = WM_KEYDOWN
  /\ FirstMatch(hookEv.vk, hookEv.down) # 0
  /\ hookEv.vk \in swallowed
  /\ hookEv.ret = Forwarded

\* C20: a non-injected key-up of k is consumed exactly when a key-down of k
\* was consumed and no non-injected key-up of k has come since, and then
\* the marker of k is cleared; no other key-up is consumed.
C20_KeyUpPairsKeyDown ==
  [][(hookEv' # NoEvent /\ hookEv'.nCode >= 0
        /\ hookEv'.msg \in {WM_KEYUP, WM_SYSKEYUP})
       => /\ hookEv'.ret = Consumed => hookEv'.vk \in unpaired
          /\ (~Bit(hookEv'.flags, LLKHF_INJECTED) /\ hookEv'.vk \in unpaired)
               => (hookEv'.ret = Consumed /\ hookEv'.vk \notin swallowed')]_vars

\* C20 witness: the key-up of a key whose key-down was consumed has been
\* consumed in turn and its marker cleared, another key still being marked.
C20_Witness ==
  /\ hookEv.msg = WM_SYSKEYUP
  /\ hookEv.ret = Consumed
  /\ hookEv.vk \notin swallowed
  /\ swallowed # {}

\* C21: once the installer has chosen to report a failed RegisterHotKey, no
\* hotkey of this install call is registered: the definitions registered
\* before the failing one are unregistered before the error is written to
\* errCh, and stay so while it is in the channel and after Register has
\* returned it.
C21_RollBackOnFailure ==
  (~hook /\ isig = "RegisterHotKey failed") =>
    /\ ipc \in {"send", "returned"}
    /\ registered = {}

\* C21 witness: the third registration failed after two had succeeded, and
\* Register has returned the error with nothing left registered.
C21_Witness ==
  /\ ~hook
  /\ rret = "RegisterHotKey failed"
  /\ idef = 3
  /\ iod = 3
  /\ registered = {}

\* C22: Register returns nil only after all three hotkeys are registered
\* (RegisterHotKey strategy) or the hook is installed (hook strategy); the
\* installer writes to errCh exactly once on every path and the slot is
\* free whenever it writes; Register returns what was written or, only
\* once the two seconds have passed, the timeout error, which is the one
\* return open to it while nothing has been written.
C22_Handshake ==
  /\ [](rret = "nil" =>
          IF hook THEN hooked \/ ipc = "returned" ELSE registered = Defs)
  /\ [](signals <= 1)
  /\ [](ipc \in {"loop", "UnhookWindowsHookEx", "returned"} => signals = 1)
  /\ [](ipc \in {"parseHotkey", "RegisterHotKey", "UnregisterHotKey",
                 "SetWindowsHookExW", "send"} => signals = 0)
  /\ [](ipc = "send" => errCh = <<>>)
  /\ [][(rret = "pending" /\ rret' # "pending") =>
          /\ rret' = "timeout" => timer
          /\ rret' # "timeout" => (errCh # <<>> /\ rret' = Head(errCh))
          /\ errCh = <<>> => rret' = "timeout"]_vars

\* C22 witness: Register has returned nil under the RegisterHotKey strategy
\* after the two seconds had passed, the installer being in its loop.
C22_Witness ==
  /\ ~hook
  /\ rret = "nil"
  /\ timer
  /\ registered = Defs
  /\ ipc = "loop"
  /\ signals = 1

\* C23: under the hook strategy the callback never waits for the handler:
\* while the hook thread lives, a matched key-down can be dispatched and
\* the callback return whatever the handlers are doing, and the dispatch
\* only spawns the handler (it is left before actionMu.Lock(), the mutex
\* and every other handler untouched).
C23_CallbackNeverWaits ==
  /\ [](hook /\ loopAlive /\ nextEv <= MaxEvents
          => \A id \in CommandIds : ENABLED HookKeyDown(id))
  /\ [][hook /\ nextEv' # nextEv
          => /\ hpc' = [hpc EXCEPT ![nextEv] = "Lock"]
             /\ actionMu' = actionMu
             /\ ncalls' = ncalls]_vars

\* C23 witness: a handler spawned by the hook waits for actionMu while
\* another holds it inside the pipeline.
C23_Witness ==
  /\ hook
  /\ loopAlive
  /\ \E a, b \in Events :
       /\ a < b
       /\ actionMu = a
       /\ InPipeline(a)
       /\ hpc[b] = "Lock"

\* handler a is handling a Stop that was accepted: from Stop's acceptance
\* through the pipeline to the handler's return
HandlingStop(a) == hcmd[a] = 1 /\ hsess[a] # 0 /\ InCritical(a)

\* C24: a Start command delivered while the controller is still handling the
\* previous Stop is dropped: an event not yet delivered at one moment of
\* that handling and waiting (in the message queue or for actionMu) with
\* command 1 at a later moment of it never has Start accepted.
C24_LateStartDropped ==
  \A a, e \in Events :
    [](HandlingStop(a) /\ hpc[e] = "none"
         => [](HandlingStop(a) /\ hcmd[e] = 1 /\ hpc[e] \in {"queued", "Lock"}
                 => [](hpc[e] # "go")))

\* a command waiting to be handled: in the thread's message queue, or its
\* handler in actionMu.Lock()
Queued(e) == hpc[e] \in {"queued", "Lock"}

\* C24 (amended): a command that waits while a Stop is being handled is
\* queued, not dropped: it stays waiting as long as that handling lasts,
\* it leaves the wait only forwards (the message loop retrieves it, then
\* its handler takes the free actionMu and enters the switch), and a Start
\* command that then finds the Recorder Idle goes on to Start.
C24_LateStartQueued ==
  [][\A e \in Events :
       /\ (Queued(e) /\ \E a \in Events : HandlingStop(a) /\ HandlingStop(a)')
            => Queued(e)'
       /\ (Queued(e) /\ hpc'[e] # hpc[e])
            => IF hpc[e] = "queued"
                 THEN hpc'[e] = "Lock"
                 ELSE /\ actionMu = 0
                      /\ actionMu' = e
                      /\ hpc'[e] = CaseOf(hcmd[e])
       /\ (hpc[e] = "State" /\ hcmd[e] = 1 /\ state = StateIdle
             /\ hpc'[e] # hpc[e])
            => hpc'[e] = "Start"]_vars

\* C24 witness: a Start command waits, under the RegisterHotKey strategy in
\* the message queue, while the pipeline of the previous Stop runs.
C24_Witness ==
  \E a, e \in Events :
    /\ a < e
    /\ ~hook
    /\ HandlingStop(a)
    /\ hpc[a] = "Transcribe"
    /\ hcmd[e] = 1
    /\ hpc[e] = "queued"


\* the key token of a spec: its last "+"-separated token, trimmed, in lower
\* case
FinalToken(s) == Parts(s)[Len(Parts(s))]

\* the decimal numeral of n (n < 100)
Numeral(n) ==
  IF n < 10 THEN <<Digits[n + 1]>>
  ELSE <<Digits[(n \div 10) + 1], Digits[(n % 10) + 1]>>

\* the key tokens the parser is to know
FunctionKeys == {<<"f">> \o Numeral(n) : n \in 1..24}
NamedKeys ==
  {<<"e", "s", "c">>, <<"e", "s", "c", "a", "p", "e">>, <<"s", "p", "a",
      "c", "e">>, <<"e", "n", "t", "e", "r">>, <<"r", "e", "t", "u", "r",
          "n">>}
    \cup {named[i][1] : i \in DOMAIN named}
NumpadKeys ==
  {p \o <<Digits[n + 1]>> : p \in {<<"n", "u", "m", "p", "a", "d">>, <<"n",
      "u", "m">>, <<"k", "p">>}, n \in 0..9}
    \cup {<<"a", "d", "d">>, <<"p", "l", "u", "s">>, <<"k", "p", "a", "d",
        "d">>, <<"s", "u", "b", "t", "r", "a", "c", "t">>, <<"m", "i", "n",
            "u", "s">>, <<"k", "p", "s", "u", "b", "t", "r", "a", "c", "t">>}
KnownKey(t) ==
  \/ Len(t) = 1 /\ (In(Letters, t[1]) \/ In(Digits, t[1]))
  \/ t \in FunctionKeys \cup NamedKeys \cup NumpadKeys

\* C25: parseHotkey fails for every spec whose final token is not a single
\* letter, a digit, a function key f1..f24, a named key or a numeric-pad
\* key or operator alias, the empty final token and the one-character
\* tokens that are neither a letter nor a digit included.
C25_UnknownKeyFails ==
  (pres # NoParse /\ ~KnownKey(FinalToken(pspec))) => pres.err


\* the modifier a token names
ModifierOf ==
  [p \in {<<"a", "l", "t">>, <<"m", "e", "n", "u">>, <<"c", "t", "r",
      "l">>, <<"c", "o", "n", "t", "r", "o", "l">>, <<"s", "h", "i", "f",
          "t">>, <<"w", "i", "n">>, <<"m", "e", "t", "a">>, <<"s", "u",
              "p", "e", "r">>} |->
     IF p \in {<<"a", "l", "t">>, <<"m", "e", "n", "u">>} THEN "Alt"
     ELSE IF p \in {<<"c", "t", "r", "l">>, <<"c", "o", "n", "t", "r", "o",
         "l">>} THEN "Ctrl"
     ELSE IF p = <<"s", "h", "i", "f", "t">> THEN "Shift"
     ELSE "Win"]

\* the modifiers a mask holds (MOD_ALT, MOD_CONTROL, MOD_SHIFT, MOD_WIN)
ModsOf(mask) ==
  {m \in {"Alt", "Ctrl", "Shift", "Win"} :
     Bit(mask, CASE m = "Alt" -> 1 [] m = "Ctrl" -> 2 [] m = "Shift" -> 4
                 [] m = "Win" -> 8)}

\* the tokens of a spec before its key token
ModifierTokens(s) == SubSeq(Parts(s), 1, Len(Parts(s)) - 1)

\* the virtual-key code of a known key token: the upper-case letter, the
\* digit, VK_F1 + (n - 1), VK_NUMPAD0 + n; for the other named keys and the
\* operator aliases, the code the token has when it stands alone
KeyCode(t) ==
  IF Len(t) = 1 /\ In(Letters, t[1]) THEN 64 + Index(Letters, t[1])
  ELSE IF Len(t) = 1 /\ In(Digits, t[1]) THEN 47 + Index(Digits, t[1])
  ELSE IF t \in FunctionKeys
    THEN 111 + (CHOOSE n \in 1..24 : t = <<"f">> \o Numeral(n))
  ELSE IF \E n \in 0..9 : t \in {p \o <<Digits[n + 1]>> : p \in {<<"n",
      "u", "m", "p", "a", "d">>, <<"n", "u", "m">>, <<"k", "p">>}}
    THEN 96 + (CHOOSE n \in 0..9 : t[Len(t)] = Digits[n + 1])
  ELSE parseHotkey(t).vk

\* C26: a spec made of recognised modifier tokens followed by a recognised
\* key token parses, without error, to exactly the set of those modifiers
\* and that key's code; "alt+q" gives {Alt} and 'Q' (81), "ctrl+numpad1"
\* gives {Ctrl} and VK_NUMPAD1 (97); the empty spec and "numpad+" fail.
C26_ModifiersAndKey ==
  pres # NoParse =>
    /\ ((\A i \in DOMAIN ModifierTokens(pspec) :
           ModifierTokens(pspec)[i] \in DOMAIN ModifierOf)
         /\ KnownKey(FinalToken(pspec)))
        => /\ ~pres.err
           /\ ModsOf(pres.mod) =
                {ModifierOf[ModifierTokens(pspec)[i]] :
                   i \in DOMAIN ModifierTokens(pspec)}
           /\ pres.mod < 16
           /\ pres.vk = KeyCode(FinalToken(pspec))
    /\ pspec = <<"a", "l", "t", "+", "q">> => pres = Parsed(1, 81)
    /\ pspec = <<"c", "t", "r", "l", "+", "n", "u", "m", "p", "a", "d",
        "1">> => pres = Parsed(2, 97)
    /\ pspec = <<>> => pres.err
    /\ pspec = <<"n", "u", "m", "p", "a", "d", "+">> => pres.err

\* C26 witness: "Ctrl+ shift+numpad1" (capital letter, space before a
\* token) has been parsed to {Ctrl, Shift} and VK_NUMPAD1.
C26_Witness ==
  /\ pspec = <<"C", "t", "r", "l", "+", " ", "s", "h", "i", "f", "t", "+",
               "n", "u", "m", "p", "a", "d", "1">>
  /\ pres = Parsed(6, 97)

\* C27: when every upload attempt has failed (MaxRetry of them, MaxRetry
\* being at least one), the error Transcribe returns is a
\* *RetryExhaustedError whose Attempts and MaxRetry both equal the
\* configured MaxRetry.
C27_RetryExhaustedError ==
  (tpc = "returned" /\ try >= 1 /\ tret # Nil /\ tcfg.MaxRetry >= 1) =>
    /\ AsRetryExhaustedError(tret)
    /\ tret.Attempts = tcfg.MaxRetry
    /\ tret.MaxRetry = tcfg.MaxRetry

\* C28: the result Stop or Cancel returns is the one the worker of the
\* stopped session produced: only the worker of session c writes into the
\* completion channel made by session c's Start, and a caller takes its
\* result from the channel of the session it stopped.
C28_OwnResultOnly ==
  [][/\ \A c \in Events :
          Len(chan'[c]) > Len(chan[c])
            => (wpc[c] = "send" /\ wpc'[c] # "send")
     /\ \A e \in Events :
          (hres'[e] # hres[e] /\ hres'[e] # NoResult)
            => (chan[hsess[e]] # <<>> /\ hres'[e] = Head(chan[hsess[e]]))]_vars

\* C29: the one-slot completion channel is empty whenever a worker is about
\* to write to it, whichever channel its read of r.done yields, so the
\* write never blocks.
C29_SendNeverBlocks ==
  \A w \in Events :
    wpc[w] = "send" => \A c \in doneRead(w) : chan[c] = <<>>

\* C30: while the Recorder state is Paused the worker completes no device
\* read and no encoder write, and the step that makes the state Paused
\* neither stops nor closes the device stream.
C30_PausedReadsNothing ==
  [][/\ state = StatePaused =>
          \A w \in Events :
            /\ ~(wpc[w] = "Read" /\ wpc'[w] # "Read")
            /\ ~(wpc[w] = "Write" /\ wpc'[w] # "Write")
     /\ (state # StatePaused /\ state' = StatePaused)
          => streamOpen' = streamOpen]_vars

\* C30 (amended): a worker that polls the state while it is Paused goes
\* back to the poll without reading or writing; the only read and write
\* completed while Paused are those of the iteration that had passed the
\* poll before the pause, after which the worker is back at the poll or, on
\* a failed write, on its way into finish; while Paused an open stream is
\* closed only by a worker on its way into finish with an error; the step
\* that makes the state Paused neither stops nor closes the device stream.
C30_PausedPollsOnly ==
  [][/\ state = StatePaused =>
          /\ \A w \in Events :
               /\ wpc[w] = "loop" => wpc'[w] = "loop"
               /\ (wpc[w] = "Read" /\ wpc'[w] # "Read")
                    => wpc'[w] \in {"loop", "Write"}
               /\ (wpc[w] = "Write" /\ wpc'[w] # "Write")
                    => wpc'[w] \in {"loop", "finish"}
          /\ \A w \in streamOpen \ streamOpen' :
               wpc'[w] = "finish" /\ wres'[w].Err
     /\ (state # StatePaused /\ state' = StatePaused)
          => (streamOpen' = streamOpen /\ fileOpen' = fileOpen
                /\ wpc' = wpc)]_vars

\* C30 witness: the state is Paused and the worker of the session is at its
\* poll with the stream and the file open.
C30_Witness ==
  /\ state = StatePaused
  /\ \E w \in Events :
       /\ wpc[w] = "loop"
       /\ w \in streamOpen
       /\ w \in fileOpen
       /\ done = w

\* worker w goes from the head of the capture loop on to stream.Read()
StartsRead(w) == wpc[w] = "loop" /\ wpc'[w] = "Read"

\* C31: after Cancel or Stop has set the state, the worker starts no
\* further device read: at the head of the loop it leaves the loop, so at
\* most the read that was under way is performed.
C31_OneMoreReadAfterHalt ==
  [][\A w \in Events :
       state \in {StateStopping, StateCanceled} => ~StartsRead(w)]_vars

\* C31 (amended): after Cancel has set the state, or after Stop has set the
\* state and cancelled the stop context, the worker starts no further
\* device read: at the head of the loop it goes to done, and a read or
\* write under way leads back to the head of the loop (or into finish).
C31_OneMoreReadAfterSignal ==
  [][\A w \in Events :
       (state = StateCanceled \/ (state = StateStopping /\ stopRequested))
         => /\ ~StartsRead(w)
            /\ (wpc[w] = "loop" /\ wpc'[w] # "loop") => wpc'[w] = "done"
            /\ (wpc[w] = "Read" /\ wpc'[w] # "Read")
                 => wpc'[w] \in {"loop", "Write"}
            /\ (wpc[w] = "Write" /\ wpc'[w] # "Write")
                 => wpc'[w] \in {"loop", "finish"}]_vars

\* C31 witness: Cancel has set the state while a read was under way, and
\* the read has been followed by the write.
C31_Witness ==
  /\ state = StateCanceled
  /\ \E w \in Events : wpc[w] = "Write" /\ done = w

-----------------------------------------------------------------------------
(***************************************************************************)
(* The hook with any configuration of the three hotkeys: startKey,         *)
(* pauseKey and cancelKey are each one of ctrl+alt+q, ctrl+q and win+w,    *)
(* and the OS delivers real (non-injected) events of q and w.              *)
(***************************************************************************)

\* what parseHotkey returns for "ctrl+alt+q", "ctrl+q" and "win+w"
ParsedSpecs == {<<3, 81>>, <<2, 81>>, <<8, 87>>}

\* specs / lookup as the parse loop builds them from three spec strings
SpecTable(s1, s2, s3) ==
  << [id |-> 1, mod |-> s1[1], vk |-> s1[2]],
     [id |-> 2, mod |-> s2[1], vk |-> s2[2]],
     [id |-> 3, mod |-> s3[1], vk |-> s3[2]] >>

\* a real event: nCode = HC_ACTION, the flags are LLKHF_UP (128) for a
\* key-up and 0 for a key-down
KeyEvent(msg, vk, down) ==
  LowLevelKeyboardProc(0, msg, vk, IF IsKeyUp(msg) THEN 128 ELSE 0, down)

DispatchInit ==
  /\ InitCommon
  /\ \E s1 \in ParsedSpecs, s2 \in ParsedSpecs, s3 \in ParsedSpecs :
       specs = SpecTable(s1, s2, s3)
  /\ hook = TRUE
  /\ cfg = {DefaultConfig}
  /\ AuxIdle

DispatchNext ==
  \E msg \in Messages, vk \in {81, 87}, down \in DownSets :
    KeyEvent(msg, vk, down)

DispatchSpec == DispatchInit /\ [][DispatchNext]_vars


\* the modifier keys a mask requires, Meta standing for either Win key
RequiredKeys(mod) ==
  { k \in {VK_CONTROL, VK_MENU, VK_SHIFT, VK_LWIN} :
      \/ k = VK_CONTROL /\ Bit(mod, 2)
      \/ k = VK_MENU /\ Bit(mod, 1)
      \/ k = VK_SHIFT /\ Bit(mod, 4)
      \/ k = VK_LWIN /\ Bit(mod, 8) }

\* the keys of `down`, a right Win key counted as the Win key
HeldKeys(down) ==
  (down \ {VK_RWIN}) \cup (IF VK_RWIN \in down THEN {VK_LWIN} ELSE {})

\* the registered candidates of key code vk with all their required
\* modifiers down, as positions in the order of the specs
Matching(vk, down) ==
  { i \in DOMAIN specs :
      specs[i].vk = vk /\ RequiredKeys(specs[i].mod) \subseteq HeldKeys(down) }

\* the call of the callback made in this step is for a real keyboard event
\* that is not injected
RealEvent ==
  /\ hookEv' # NoEvent
  /\ hookEv'.nCode >= 0
  /\ ~Bit(hookEv'.flags, LLKHF_INJECTED)

\* C32: a non-injected event is consumed exactly when it is a key-down
\* whose key code has a candidate with all required modifiers down, or a
\* key-up whose key code is marked swallowed; any other event is forwarded
\* and changes nothing; a consumed key-down starts exactly one handler, for
\* the command of the first matching candidate.
C32_ConsumedIffMatched ==
  [][RealEvent =>
       LET e == hookEv'
           isDown == e.msg \in {WM_KEYDOWN, WM_SYSKEYDOWN}
           isUp == e.msg \in {WM_KEYUP, WM_SYSKEYUP}
           match == Matching(e.vk, e.down)
           first == CHOOSE i \in match : \A j \in match : i <= j
       IN  /\ e.ret = Consumed <=>
                ((isDown /\ match # {}) \/ (isUp /\ e.vk \in swallowed))
           /\ e.ret # Consumed =>
                /\ e.ret = Forwarded
                /\ UNCHANGED <<swallowed, nextEv, hcmd, hpc>>
           /\ (e.ret = Consumed /\ isDown) =>
                /\ nextEv' = nextEv + 1
                /\ e.id = specs[first].id
                /\ hcmd' = [hcmd EXCEPT ![nextEv] = specs[first].id]
                /\ hpc' = [hpc EXCEPT ![nextEv] = "Lock"]
           /\ (e.ret = Consumed /\ ~isDown) =>
                UNCHANGED <<nextEv, hcmd, hpc>>]_vars

\* C32 witness: a key-down of q with Ctrl and Alt down, which both
\* ctrl+alt+q and ctrl+q match, has been consumed and has started the
\* handler of the first of them.
C32_Witness ==
  /\ hookEv.nCode = 0
  /\ hookEv.flags = 0
  /\ hookEv.msg = WM_KEYDOWN
  /\ hookEv.vk = 81
  /\ hookEv.down = {VK_CONTROL, VK_MENU}
  /\ hookEv.ret = Consumed
  /\ hookEv.id = 1
  /\ \E e \in Events : hcmd[e] = 1 /\ hpc[e] = "Lock"


\* C33: the hook never forwards a non-injected key-down of a key whose
\* swallowed marker is set, and never forwards a non-injected key-up of a
\* key whose key-down it consumed.
C33_ForwardedBalanced ==
  [][RealEvent =>
       /\ (hookEv'.msg \in {WM_KEYDOWN, WM_SYSKEYDOWN}
             /\ hookEv'.vk \in swallowed) => hookEv'.ret # Forwarded
       /\ (hookEv'.msg \in {WM_KEYUP, WM_SYSKEYUP}
             /\ hookEv'.vk \in unpaired) => hookEv'.ret # Forwarded]_vars


\* the three configured hotkeys are pairwise distinct (mask, key code) pairs
PairwiseDistinct ==
  \A i, j \in DOMAIN specs :
    i # j => <<specs[i].mod, specs[i].vk>> # <<specs[j].mod, specs[j].vk>>

\* C34: with pairwise distinct hotkeys, a key-down of a hotkey's key while
\* exactly the modifiers of that hotkey are down starts the handler of that
\* hotkey's command and of no other.
C34_ExactModifiersDispatch ==
  [][(PairwiseDistinct /\ RealEvent
        /\ hookEv'.msg \in {WM_KEYDOWN, WM_SYSKEYDOWN}) =>
       \A i \in DOMAIN specs :
         (hookEv'.vk = specs[i].vk
            /\ HeldKeys(hookEv'.down) = RequiredKeys(specs[i].mod))
           => /\ hookEv'.id = specs[i].id
              /\ nextEv' = nextEv + 1
              /\ hcmd' = [hcmd EXCEPT ![nextEv] = specs[i].id]]_vars


\* C35: once Register has returned an error, the timeout error included,
\* no hotkey of this install call is registered, its keyboard hook is not
\* installed, and the installer is not in the message loop from which the
\* command callback is called.
C35_ErrorLeavesNothingActive ==
  rret \notin {"none", "pending", "nil"} =>
    /\ registered = {}
    /\ ~hooked
    /\ ipc # "loop"


\* s with the case of every letter swapped
SwapCase(s) ==
  [i \in DOMAIN s |->
     IF In(Capitals, s[i]) THEN Letters[Index(Capitals, s[i])]
     ELSE IF In(Letters, s[i]) THEN Capitals[Index(Letters, s[i])]
     ELSE s[i]]

\* s with a space before and a tab after every token
RECURSIVE Padded(_)
Padded(s) ==
  IF s = <<>> THEN <<" ", "\t">>
  ELSE IF Head(s) = "+" THEN <<"\t", "+">> \o Padded(Tail(s))
  ELSE IF Len(s) = 1 THEN <<" ", Head(s), "\t">>
  ELSE LET r == Padded(Tail(s))
       IN  IF Head(Tail(s)) = "+" THEN <<" ", Head(s)>> \o r
           ELSE <<" ", Head(s)>> \o Tail(r)

\* C36: a spec, the spec with the case of its letters swapped and the spec
\* with white space put around its tokens either all fail or all yield the
\* same (modifier mask, key code).
C36_CaseAndSpaceInsensitive ==
  pres # NoParse =>
    /\ parseHotkey(SwapCase(pspec)) = pres
    /\ pspec # <<>> => parseHotkey(Padded(pspec)) = pres
    /\ parseHotkey(Padded(SwapCase(pspec))) = parseHotkey(SwapCase(pspec))

\* C36 witness: "Ctrl+ w", with a capital and a space before the key
\* token, has been parsed to Ctrl and W.
C36_Witness ==
  /\ pspec = <<"C", "t", "r", "l", "+", " ", "w">>
  /\ pres = Parsed(2, 87)
  /\ SwapCase(pspec) = <<"c", "T", "R", "L", "+", " ", "W">>
  /\ Padded(pspec) =
       <<" ", "C", "t", "r", "l", "\t", "+", " ", " ", "w", "\t">>


\* the tokens of a spec as written: those before the last one, and the last
RawModifiers(s) == SubSeq(Split(s), 1, Len(Split(s)) - 1)
RawKey(s) == Split(s)[Len(Split(s))]

Reverse(seq) == [i \in DOMAIN seq |-> seq[Len(seq) + 1 - i]]

\* C37: parsing fails exactly when the final token alone fails; otherwise
\* the mask holds exactly the modifiers named by the recognised aliases
\* among the non-final tokens, the other non-final tokens adding nothing,
\* and the result is the same with the non-final tokens in reverse order
\* and with each of them written twice.
C37_MaskIsUnionOfAliases ==
  pres # NoParse =>
    LET mods == ModifierTokens(pspec)
        raw == RawModifiers(pspec)
        key == RawKey(pspec)
        alone == parseHotkey(key)
    IN  /\ pres.err <=> alone.err
        /\ ~pres.err =>
             /\ ModsOf(pres.mod) =
                  {ModifierOf[mods[i]] :
                     i \in {j \in DOMAIN mods : mods[j] \in DOMAIN ModifierOf}}
             /\ pres.mod < 16
             /\ pres.vk = alone.vk
        /\ parseHotkey(Join(Reverse(raw) \o <<key>>)) = pres
        /\ parseHotkey(Join(raw \o raw \o <<key>>)) = pres

\* C37 witness: "hyper+ctrl+q", whose first token is no modifier alias, has
\* been parsed to Ctrl and Q.
C37_Witness ==
  /\ pspec = <<"h", "y", "p", "e", "r", "+", "c", "t", "r", "l", "+", "q">>
  /\ pres = Parsed(2, 81)


\* max(1, MaxRetry)
MaxAttempts == IF tcfg.MaxRetry > 1 THEN tcfg.MaxRetry ELSE 1

\* min(k, max(1, MaxRetry)), k the index of the first successful call of
\* doUpload in the history, beyond every bound when there is none
ExpectedAttempts ==
  LET succ == {i \in DOMAIN uploads : uploads[i]}
      k == CHOOSE i \in succ : \A j \in succ : i <= j
  IN  IF succ # {} /\ k <= MaxAttempts THEN k ELSE MaxAttempts

\* no call of doUpload was made after a successful one
StopsAtFirstSuccess ==
  \A i \in DOMAIN uploads : uploads[i] => i = Len(uploads)

\* C38: when Transcribe has returned it has made exactly
\* min(k, max(1, MaxRetry)) calls of doUpload, none after a successful
\* one, and has returned an error exactly when all of them failed.
C38_AttemptsExactly ==
  /\ StopsAtFirstSuccess
  /\ tpc = "returned" =>
       /\ Len(uploads) = ExpectedAttempts
       /\ tret # Nil <=> \A i \in DOMAIN uploads : ~uploads[i]

\* C38 (amended): Transcribe always returns; with an API endpoint set it
\* has then made exactly min(k, max(1, MaxRetry)) calls of doUpload, none
\* after a successful one, and has returned an error exactly when all of
\* them failed; with the endpoint empty it has made no call of doUpload
\* and has returned an error.
C38_TerminatesAfterAttempts ==
  /\ <>(tpc = "returned")
  /\ [](/\ StopsAtFirstSuccess
        /\ (tpc = "returned" /\ tcfg.APIEndpoint) =>
             /\ Len(uploads) = ExpectedAttempts
             /\ try = Len(uploads)
             /\ tret # Nil <=> \A i \in DOMAIN uploads : ~uploads[i]
        /\ (tpc = "returned" /\ ~tcfg.APIEndpoint) =>
             /\ uploads = <<>>
             /\ tret # Nil)

\* C38 witness: with MaxRetry = 3 the second call of doUpload succeeded
\* and Transcribe has returned without error after two attempts.
C38_Witness ==
  /\ tpc = "returned"
  /\ tcfg.MaxRetry = 3
  /\ uploads = <<FALSE, TRUE>>
  /\ tret = Nil


\* the steps a list of segments stands for: a key, then its indexes
RECURSIVE Steps(_)
Steps(segs) ==
  IF segs = <<>> THEN <<>>
  ELSE (IF Head(segs).key = <<>> THEN <<>>
        ELSE <<[kind |-> "key", k |-> Head(segs).key, i |-> 0]>>)
       \o [j \in DOMAIN Head(segs).idxs |->
             [kind |-> "index", k |-> <<>>, i |-> Head(segs).idxs[j]]]
       \o Steps(Tail(segs))

\* the value found by following the steps from v, if every key exists and
\* every index is in range
RECURSIVE At(_, _)
At(v, steps) ==
  IF steps = <<>> THEN Reached(v)
  ELSE IF Head(steps).kind = "key"
    THEN IF v.t = "map" /\ Head(steps).k \in DOMAIN v.v
           THEN At(v.v[Head(steps).k], Tail(steps))
           ELSE Nothing
    ELSE IF v.t = "slice" /\ (Head(steps).i + 1) \in DOMAIN v.v
           THEN At(v.v[Head(steps).i + 1], Tail(steps))
           ELSE Nothing

\* the scalars of Document as text
Text(v) ==
  IF v.t = "string" THEN v.v
  ELSE IF v.t = "bool" THEN <<"t", "r", "u", "e">>
  ELSE IF v.v = 42 THEN <<"4", "2">>
  ELSE <<"-", "3">>

WellFormed == \A i \in DOMAIN jsegs : jsegs[i].wf

\* C39: when every segment is well-formed, every key exists and every
\* index is in range, ExtractByPath returns the leaf (a value that is no
\* object and no array) as a string with found = true; when a segment is
\* malformed, a key is missing or an index is out of range it returns
\* ("", false).
C39_LeafOrNotFound ==
  jpc = "returned" =>
    /\ (WellFormed /\ At(Document, Steps(jsegs)).ok
          /\ At(Document, Steps(jsegs)).cur.t \notin {"map", "slice"})
         => /\ jres.found
            /\ jres.value = Text(At(Document, Steps(jsegs)).cur)
    /\ (~WellFormed \/ ~At(Document, Steps(jsegs)).ok) => jres = NotFound

\* C39 (amended): as C39 for a leaf that is a string, a number or a bool;
\* when the value reached is null, an object or an array ExtractByPath
\* returns ("", false) as well.
C39_ScalarOrNotFound ==
  jpc = "returned" =>
    /\ (WellFormed /\ At(Document, Steps(jsegs)).ok
          /\ At(Document, Steps(jsegs)).cur.t \in
               {"string", "float64", "bool"})
         => /\ jres.found
            /\ jres.value = Text(At(Document, Steps(jsegs)).cur)
    /\ (~WellFormed \/ ~At(Document, Steps(jsegs)).ok) => jres = NotFound
    /\ (WellFormed /\ At(Document, Steps(jsegs)).ok
          /\ At(Document, Steps(jsegs)).cur.t \in {"nil", "map", "slice"})
         => jres = NotFound

\* C39 witness: ExtractByPath has returned ("b", true) for
\* "data.items[1].value".
C39_Witness ==
  /\ jpc = "returned"
  /\ jpath = <<"d", "a", "t", "a", ".", "i", "t", "e", "m", "s", "[", "1",
               "]", ".", "v", "a", "l", "u", "e">>
  /\ jres = Found(<<"b">>)


=============================================================================
